---------------------------- MODULE Spec2Model ----------------------------
(***************************************************************************)
(* A model of lhecker/tumblr-scraper.                                      *)
(*                                                                         *)
(*   Part 1  semaphore.PrioritySemaphore        (src/semaphore/basic.go)   *)
(*   Part 2  the download path and the file interlock                      *)
(*           (src/scraper/scraper.go, src/scraper/ioutils.go)              *)
(*   Part 3  the pagination driver and the update loop                     *)
(*           (src/scraper/scraper.go, src/app/app.go)                      *)
(*   Part 4  account.LoginOnce                 (src/account/account.go)    *)
(*   Part 5  the configuration file            (src/config/config.go)      *)
(*                                                                         *)
(* Each part has its own specification over the module's variables; a      *)
(* specification leaves the variables of the other parts unchanged.        *)
(***************************************************************************)
EXTENDS Integers, Sequences, FiniteSets, TLC

VARIABLES
    \* ---- Part 1: PrioritySemaphore and its callers
    capacity,       \* PrioritySemaphore.capacity
    allocated,      \* PrioritySemaphore.allocated
    waiters,        \* PrioritySemaphore.waiters: the heap, a sequence of queueEntry
    closed,         \* the channels of queueEntry that Release has closed
    spc,            \* per caller: "idle", "blocked" (in <-ch) or "holding"
    sprio,          \* per caller: the priority argument of its Acquire
    \* ---- Part 2: download tasks, the file interlock and the target directory
    files,          \* the target directory: path -> [content, mtime] of existing files
    lockedFiles,    \* ioutils.go lockedFiles: the set of locked paths
    dpc,            \* per task: its position in downloadFile / downloadFileMaybe
    drawurl,        \* per task: downloadFile's argument rawurl
    dcur,           \* per task: the rawurl of the running downloadFileMaybe call
    dattempt,       \* per task: 1 for the call on the optimal URL, 2 for the fallback
    dpath,          \* per task: downloadFileMaybe's local `path`
    derr,           \* per task: the value being returned ("nil", "notfound", "error")
    dopened,        \* history: per task, the paths it opened with os.OpenFile
    dgets,          \* history: per task, the GETs it issued, as [url, status]
    \* ---- Part 3: the update loop, one scrape context, the error group, upstream
    blogs,          \* cfg.Blogs: the configured blogs, in order
    db,             \* the store's highest_id bucket: what GetHighestID returns per blog
    hasUser,        \* config.Username is set
    loginState,     \* account.loginState
    cancelledAt,    \* where the run was when the termination signal cancelled the
                    \* root context ("" while it has not)
    hpc,            \* handleUpdate: "next", "scrape", "returned", "done", "failed"
    bi,             \* handleUpdate: index of the blog in cfg.Blogs
    ret,            \* what Scraper.Scrape returned: [id, err]
    rescrape,       \* blogConfig.Rescrape of the blog being scraped
    sc,             \* scrapeContext: state, offset, before, lowestID, highestID
    initialHighestID, \* Scrape's local initialHighestID
    page,           \* res.Response.Posts of the page being walked (post ids)
    pi,             \* index of the post the range loop is at
    ndl,            \* downloadFileAsync calls scrapePost still has to make
    drv,            \* the driver's position in sc.Scrape
    err,            \* sc.Scrape's named result err
    egErr,          \* errgroup.Group: the first error recorded
    ctxDone,        \* the errgroup's context is cancelled
    tRunning,       \* download tasks running (each holds a semaphore slot)
    tRet,           \* tasks that returned an error the group has not recorded yet
    fetches,        \* upstream: non-empty pages served to this scrape
    reqURL,         \* the endpoint of the driver's last page request ("" before the first)
    stale,          \* history: the page last fetched held no post with id < lowestID
    seen,           \* history: ids of the posts the range loop looked at
    processed,      \* history: the posts handed to scrapePost, in order: [id, page]
    stores,         \* history: the SetHighestID calls made, in order
    upstream,       \* where a run fixes it: the blog's posts, newest first, and
                    \* whether the public endpoint lists them: [feed, public]
    blogConfig,     \* where a run fixes it: the blog's [Rescrape, Before]
    earliest,       \* history: the earliest time sc.before has held in this scrape
                    \* (0 while it has held none)
    tries,          \* history: the page requests scrapeBlog has sent since the
                    \* scrape began or last got a page
    logins,         \* history: the calls of account.LoginOnce by this scrape context
    \* ---- Part 4: callers of account.LoginOnce (loginState is Part 3's)
    hasCreds,       \* sharedConfig.Username and Password are both set
    loginLock,      \* account.loginLock: the caller holding it, 0 when free
    lpc,            \* per caller: its position in LoginOnce
    lres,           \* per caller: what LoginOnce returned ("none" before)
    attempts,       \* history: the runs of the login and logout procedures, as
                    \* [by, ok, op]
    \* ---- Part 5: the configuration file and its backup
    cfgFiles,       \* the files at path and path + ".bak": NoCfgFile or
                    \* [lines, torn]
    cpc,            \* the position of the run: LoadConfigOrDefault, the steps
                    \* of Config.Save, the next run's LoadConfigOrDefault
    mem,            \* what LoadConfigOrDefault gave this run: [kind, cfg]
    loadRes         \* what LoadConfigOrDefault gives the next run

semVars == <<capacity, allocated, waiters, closed, spc, sprio>>
dlVars == <<files, lockedFiles, dpc, drawurl, dcur, dattempt, dpath, derr, dopened, dgets>>

scVars == <<blogs, db, hasUser, loginState, cancelledAt, hpc, bi, ret, rescrape, sc,
            initialHighestID, page, pi, ndl, drv, err, egErr, ctxDone, tRunning,
            tRet, fetches, reqURL, stale, seen, processed, stores, upstream, blogConfig, earliest,
            tries, logins>>

\* Part 3 without the login latch
scRest == <<blogs, db, hasUser, cancelledAt, hpc, bi, ret, rescrape, sc,
            initialHighestID, page, pi, ndl, drv, err, egErr, ctxDone, tRunning,
            tRet, fetches, reqURL, stale, seen, processed, stores, upstream, blogConfig, earliest,
            tries, logins>>

loginVars == <<hasCreds, loginLock, lpc, lres, attempts>>

cfgVars == <<cfgFiles, cpc, mem, loadRes>>

vars == <<semVars, dlVars, scVars, loginVars, cfgVars>>

\* what the steps of each part leave alone
semFrame == <<dlVars, scVars, loginVars, cfgVars>>
dlFrame == <<semVars, scVars, loginVars, cfgVars>>
scEnv == <<capacity, spc, sprio, dlVars, loginVars, cfgVars, upstream, blogConfig>>
scFrame == <<scEnv, earliest, tries, logins>>
loginFrame == <<semVars, dlVars, scRest, cfgVars>>
cfgFrame == <<semVars, dlVars, scVars, loginVars>>

-----------------------------------------------------------------------------
(* Bounds of the model *)

NumThreads == 4
MaxCapacity == 2
MaxPriority == 1
NumTasks == 2
MaxID == 2
MaxPageLen == 2
MaxPages == 2
MaxUrls == 1
MaxTs == 1
NumCallers == 3
MaxCalls == 4
MaxCfgBlogs == 2

Threads == 1..NumThreads
Priorities == 0..MaxPriority

-----------------------------------------------------------------------------
(***************************************************************************)
(* Part 1: the priority semaphore                                          *)
(***************************************************************************)

\* queueEntry{ch, priority}; a channel is named by the caller that made it
queueEntry(ch, priority) == [ch |-> ch, priority |-> priority]

\* queue.Less: a greater priority sorts first (max-heap)
LessMin(pq, i, j) == pq[i].priority < pq[j].priority
Less(pq, i, j) == pq[i].priority > pq[j].priority

\* queue.Swap
Swap(pq, i, j) == [pq EXCEPT ![i] = pq[j], ![j] = pq[i]]

\* container/heap up(h, j), on 1-based indices: the parent of j is j \div 2
RECURSIVE up(_, _)
up(pq, j) ==
    IF j = 1 THEN pq
    ELSE LET i == j \div 2 IN
         IF ~Less(pq, j, i) THEN pq
         ELSE up(Swap(pq, i, j), i)

\* container/heap down(h, i, n) on the first n entries, 1-based: children 2i, 2i+1
RECURSIVE down(_, _, _)
down(pq, i, n) ==
    LET j1 == 2 * i IN
    IF j1 > n THEN pq
    ELSE LET j2 == j1 + 1
             j  == IF j2 <= n /\ Less(pq, j2, j1) THEN j2 ELSE j1
         IN  IF ~Less(pq, j, i) THEN pq
             ELSE down(Swap(pq, i, j), j, n)

\* heap.Push(&s.waiters, e): queue.Push appends, then up(len-1)
heapPush(pq, e) == up(Append(pq, e), Len(pq) + 1)

\* heap.Pop(&s.waiters): Swap(0, n), down(0, n), then queue.Pop takes the last
heapPop(pq) ==
    LET n == Len(pq)
        h == down(Swap(pq, 1, n), 1, n - 1)
    IN  [item |-> h[n], rest |-> SubSeq(h, 1, n - 1)]

\* the test `s.allocated < s.capacity` of Acquire and of Release's loop
HasCapacityLeq(a, c) == a <= c
HasCapacity(a, c) == a < c

\* the loop of Release: pop and wake while there is capacity and a waiter
RECURSIVE releaseLoop(_, _, _, _)
releaseLoop(a, c, pq, cl) ==
    IF HasCapacity(a, c) /\ Len(pq) # 0
    THEN LET p == heapPop(pq)
         IN  releaseLoop(a + 1, c, p.rest, cl \cup {p.item.ch})
    ELSE [allocated |-> a, waiters |-> pq, closed |-> cl]

\* PrioritySemaphore.Acquire up to s.lock.Unlock(), for caller ch
semAcquire(ch, priority) ==
    IF HasCapacity(allocated, capacity)
    THEN /\ allocated' = allocated + 1
         /\ UNCHANGED <<waiters, closed>>
    ELSE /\ waiters' = heapPush(waiters, queueEntry(ch, priority))
         /\ UNCHANGED <<allocated, closed>>

\* whether semAcquire took the fast path (the caller has the slot already)
semAcquired == HasCapacity(allocated, capacity)

\* PrioritySemaphore.Release
semRelease ==
    LET r == releaseLoop(allocated - 1, capacity, waiters, closed)
    IN  /\ allocated' = r.allocated
        /\ waiters' = r.waiters
        /\ closed' = r.closed

\* NewPrioritySemaphore(capacity)
SemInit ==
    /\ capacity \in 1..MaxCapacity
    /\ allocated = 0
    /\ waiters = <<>>
    /\ closed = {}
    /\ spc = [t \in Threads |-> "idle"]
    /\ sprio = [t \in Threads |-> 0]

\* a caller runs Acquire(p) up to the unlock: it has the slot or blocks in <-ch
Acquire(t, p) ==
    /\ spc[t] = "idle"
    /\ semAcquire(t, p)
    /\ spc' = [spc EXCEPT ![t] = IF semAcquired THEN "holding" ELSE "blocked"]
    /\ sprio' = [sprio EXCEPT ![t] = p]
    /\ UNCHANGED <<capacity, semFrame>>

\* <-ch returns once Release has closed the channel
AcquireReturn(t) ==
    /\ spc[t] = "blocked"
    /\ t \in closed
    /\ closed' = closed \ {t}
    /\ spc' = [spc EXCEPT ![t] = "holding"]
    /\ UNCHANGED <<capacity, allocated, waiters, sprio, semFrame>>

\* a caller whose Acquire has returned calls Release
Release(t) ==
    /\ spc[t] = "holding"
    /\ semRelease
    /\ spc' = [spc EXCEPT ![t] = "idle"]
    /\ UNCHANGED <<capacity, sprio, semFrame>>

-----------------------------------------------------------------------------
(***************************************************************************)
(* Part 2: the download path                                               *)
(*                                                                         *)
(* A media URL is modelled by what the two fixup regexps and filepath.Base *)
(* read of it: the stem of its basename, the number of a trailing          *)
(* `_<digits>` (0 when there is none) and its extension.  The basename of  *)
(* a URL names the file in the blog's target directory, so a path is the   *)
(* same record.                                                            *)
(***************************************************************************)

DTasks == 1..NumTasks

URL(stem, size, ext) == [stem |-> stem, size |-> size, ext |-> ext]

\* the media URLs a post may carry
MediaURLs == {URL("a", 500, "jpg"), URL("c", 0, "gifv")}

\* scrapeContext.fixupURL: `_480.mp4`/`_720.mp4` -> `.mp4`; otherwise
\* `_<digits>.<ext>` -> `_1280.<ext>`
fixupURLNone(u) == u
fixupURL(u) ==
    IF u.ext = "mp4"
    THEN IF u.size \in {480, 720} THEN [u EXCEPT !.size = 0] ELSE u
    ELSE IF u.size # 0 THEN [u EXCEPT !.size = 1280] ELSE u

\* filepath.Join(sc.blogConfig.Target, filepath.Base(rawurl))
Base(u) == u

\* the response headers downloadFileMaybe reads:
\*   cd    the filename parameter of Content-Disposition, or NoName
\*   exts  mime.ExtensionsByType(Content-Type)
\* (Last-Modified only selects which of two timestamps becomes fileTime; the
\* model writes "chosen" for the fileTime of lines 585 and 615-623)
NoName == URL("", 0, "")
Headers ==
    [cd : {NoName, URL("c", 0, "mp4")},
     exts : {<<>>, <<"jpe", "jpg">>}]

\* scrapeContext.fixupFilepath
fixupFilepath(h, path) ==
    IF h.cd # NoName THEN h.cd
    ELSE IF Len(h.exts) # 0
         THEN IF \E i \in 1..Len(h.exts) : h.exts[i] = path.ext
              THEN path
              ELSE [path EXCEPT !.ext = h.exts[1]]
         ELSE path

\* an os.Lstat that finds no file
ExistsNever(path) == FALSE

\* os.Lstat(path) succeeds
Exists(path) == path \in DOMAIN files

NoFiles == [p \in {} |-> 0]

\* os.OpenFile(path, O_WRONLY|O_CREATE|O_TRUNC): an empty file, stamped now
createFile(fs, path) ==
    [p \in DOMAIN fs \cup {path} |->
        IF p = path THEN [content |-> "empty", mtime |-> "created"] ELSE fs[p]]

\* os.Remove(path)
removeFile(fs, path) == [p \in DOMAIN fs \ {path} |-> fs[p]]

\* a file a previous run left: complete and stamped
oldFile == [content |-> "complete", mtime |-> "chosen"]

\* acquireFile(path) returns true
acquireFileAlways(locked, path) == TRUE
acquireFileOk(locked, path) == path \notin locked

\* tasks spawned for URLs of the posts; the directory holds what an earlier
\* run published
DlInit ==
    /\ drawurl \in [DTasks -> MediaURLs]
    /\ files \in {NoFiles} \cup {[p \in {Base(u)} |-> oldFile] : u \in MediaURLs}
    /\ lockedFiles = {}
    /\ dpc = [t \in DTasks |-> "start"]
    /\ dcur = drawurl
    /\ dattempt = [t \in DTasks |-> 1]
    /\ dpath = [t \in DTasks |-> NoName]
    /\ derr = [t \in DTasks |-> "nil"]
    /\ dopened = [t \in DTasks |-> {}]
    /\ dgets = [t \in DTasks |-> <<>>]

\* no download task exists (the state of Part 2 in the other parts' runs)
DlQuiet ==
    /\ drawurl = [t \in DTasks |-> NoName]
    /\ files = NoFiles
    /\ lockedFiles = {}
    /\ dpc = [t \in DTasks |-> "done"]
    /\ dcur = drawurl
    /\ dattempt = [t \in DTasks |-> 1]
    /\ dpath = [t \in DTasks |-> NoName]
    /\ derr = [t \in DTasks |-> "nil"]
    /\ dopened = [t \in DTasks |-> {}]
    /\ dgets = [t \in DTasks |-> <<>>]

\* downloadFileMaybe returns e to downloadFile (lines 561-575): a 404 of the
\* optimal URL falls back to rawurl when the two differ; a 404 of the last
\* attempt is swallowed
attemptReturn(t, e) ==
    IF e = "notfound" /\ dattempt[t] = 1 /\ fixupURL(drawurl[t]) # drawurl[t]
    THEN /\ dcur' = [dcur EXCEPT ![t] = drawurl[t]]
         /\ dattempt' = [dattempt EXCEPT ![t] = 2]
         /\ dpc' = [dpc EXCEPT ![t] = "lstat"]
         /\ derr' = [derr EXCEPT ![t] = "nil"]
    ELSE /\ dpc' = [dpc EXCEPT ![t] = "done"]
         /\ derr' = [derr EXCEPT ![t] = IF e = "notfound" THEN "nil" ELSE e]
         /\ UNCHANGED <<dcur, dattempt>>

\* downloadFile: optimalRawurl := sc.fixupURL(rawurl), first attempt
DlStart(t) ==
    /\ dpc[t] = "start"
    /\ dcur' = [dcur EXCEPT ![t] = fixupURL(drawurl[t])]
    /\ dpc' = [dpc EXCEPT ![t] = "lstat"]
    /\ UNCHANGED <<files, lockedFiles, drawurl, dattempt, dpath, derr,
                   dopened, dgets, dlFrame>>

\* downloadFileMaybe lines 584-592: the path, and the first os.Lstat
DlLstat(t) ==
    /\ dpc[t] = "lstat"
    /\ dpath' = [dpath EXCEPT ![t] = Base(dcur[t])]
    /\ IF Exists(Base(dcur[t]))
       THEN attemptReturn(t, "nil")
       ELSE /\ dpc' = [dpc EXCEPT ![t] = "get"]
            /\ UNCHANGED <<dcur, dattempt, derr>>
    /\ UNCHANGED <<files, lockedFiles, drawurl, dopened, dgets, dlFrame>>

\* lines 594-598: the GET fails in the transport
DlGetError(t) ==
    /\ dpc[t] = "get"
    /\ attemptReturn(t, "error")
    /\ dgets' = [dgets EXCEPT ![t] = Append(@, [url |-> dcur[t], status |-> 0])]
    /\ UNCHANGED <<files, lockedFiles, drawurl, dpath, dopened, dlFrame>>

\* lines 600-613: a status other than 200
DlGetStatus(t, status) ==
    /\ dpc[t] = "get"
    /\ status # 200
    /\ attemptReturn(t, CASE status = 403 -> "nil"
                          [] status = 404 -> "notfound"
                          [] status = 500 -> "notfound"
                          [] OTHER -> "error")
    /\ dgets' = [dgets EXCEPT ![t] = Append(@, [url |-> dcur[t], status |-> status])]
    /\ UNCHANGED <<files, lockedFiles, drawurl, dpath, dopened, dlFrame>>

\* lines 600-627: status 200; Last-Modified and fixupFilepath
DlGetOK(t, h) ==
    /\ dpc[t] = "get"
    /\ dpath' = [dpath EXCEPT ![t] = fixupFilepath(h, dpath[t])]
    /\ dpc' = [dpc EXCEPT ![t] =
                  IF fixupFilepath(h, dpath[t]) # dpath[t] THEN "lstat2" ELSE "acquire"]
    /\ dgets' = [dgets EXCEPT ![t] = Append(@, [url |-> dcur[t], status |-> 200])]
    /\ UNCHANGED <<files, lockedFiles, drawurl, dcur, dattempt, derr, dopened, dlFrame>>

\* lines 629-634: the os.Lstat of the corrected path
DlLstat2(t) ==
    /\ dpc[t] = "lstat2"
    /\ IF Exists(dpath[t])
       THEN attemptReturn(t, "nil")
       ELSE /\ dpc' = [dpc EXCEPT ![t] = "acquire"]
            /\ UNCHANGED <<dcur, dattempt, derr>>
    /\ UNCHANGED <<files, lockedFiles, drawurl, dpath, dopened, dgets, dlFrame>>

\* lines 637-640 with acquireFile (ioutils.go 12-22)
DlAcquire(t) ==
    /\ dpc[t] = "acquire"
    /\ IF acquireFileOk(lockedFiles, dpath[t])
       THEN /\ lockedFiles' = lockedFiles \cup {dpath[t]}
            /\ dpc' = [dpc EXCEPT ![t] = "open"]
            /\ UNCHANGED <<dcur, dattempt, derr>>
       ELSE /\ attemptReturn(t, "nil")
            /\ UNCHANGED lockedFiles
    /\ UNCHANGED <<files, drawurl, dpath, dopened, dgets, dlFrame>>

\* lines 642-645: os.OpenFile creates or truncates the file, or fails
DlOpen(t) ==
    /\ dpc[t] = "open"
    /\ \/ /\ files' = createFile(files, dpath[t])
          /\ dopened' = [dopened EXCEPT ![t] = @ \cup {dpath[t]}]
          /\ dpc' = [dpc EXCEPT ![t] = "copy"]
          /\ UNCHANGED derr
       \/ /\ derr' = [derr EXCEPT ![t] = "error"]
          /\ dpc' = [dpc EXCEPT ![t] = "release"]
          /\ UNCHANGED <<files, dopened>>
    /\ UNCHANGED <<lockedFiles, drawurl, dcur, dattempt, dpath, dgets, dlFrame>>

\* lines 647-652: io.Copy writes a part of the body, the rest of it, or fails
\* (then the file is closed and removed)
DlCopy(t) ==
    /\ dpc[t] = "copy"
    /\ \/ /\ files[dpath[t]].content # "partial"
          /\ files' = [files EXCEPT ![dpath[t]].content = "partial"]
          /\ UNCHANGED <<dpc, derr>>
       \/ /\ files' = [files EXCEPT ![dpath[t]].content = "complete"]
          /\ dpc' = [dpc EXCEPT ![t] = "close"]
          /\ UNCHANGED derr
       \/ /\ files' = removeFile(files, dpath[t])
          /\ derr' = [derr EXCEPT ![t] = "error"]
          /\ dpc' = [dpc EXCEPT ![t] = "release"]
    /\ UNCHANGED <<lockedFiles, drawurl, dcur, dattempt, dpath, dopened, dgets, dlFrame>>

\* lines 654-658: file.Close, or its failure and os.Remove
DlClose(t) ==
    /\ dpc[t] = "close"
    /\ \/ /\ dpc' = [dpc EXCEPT ![t] = "chtimes"]
          /\ UNCHANGED <<files, derr>>
       \/ /\ files' = removeFile(files, dpath[t])
          /\ derr' = [derr EXCEPT ![t] = "error"]
          /\ dpc' = [dpc EXCEPT ![t] = "release"]
    /\ UNCHANGED <<lockedFiles, drawurl, dcur, dattempt, dpath, dopened, dgets, dlFrame>>

\* lines 660-666: os.Chtimes stamps the file, or fails and the error is returned
DlChtimes(t) ==
    /\ dpc[t] = "chtimes"
    /\ \/ /\ files' = [files EXCEPT ![dpath[t]].mtime = "chosen"]
          /\ derr' = [derr EXCEPT ![t] = "nil"]
       \/ /\ derr' = [derr EXCEPT ![t] = "error"]
          /\ UNCHANGED files
    /\ dpc' = [dpc EXCEPT ![t] = "release"]
    /\ UNCHANGED <<lockedFiles, drawurl, dcur, dattempt, dpath, dopened, dgets, dlFrame>>

\* the deferred releaseFile(path) (line 640, ioutils.go 24-29), then the return
DlRelease(t) ==
    /\ dpc[t] = "release"
    /\ lockedFiles' = lockedFiles \ {dpath[t]}
    /\ attemptReturn(t, derr[t])
    /\ UNCHANGED <<files, drawurl, dpath, dopened, dgets, dlFrame>>

\* the statuses the media servers answer with
Statuses == {200, 403, 404, 500, 503}

-----------------------------------------------------------------------------
(***************************************************************************)
(* Part 3: the pagination driver and the update loop                       *)
(*                                                                         *)
(* A page is the sequence of the ids of its posts.  What else the loop     *)
(* reads of a post (its timestamp, whether handleReblogs drops it, how     *)
(* many media URLs scrapePost finds) is drawn when the loop reaches it.    *)
(***************************************************************************)

\* the blogs a configuration may name
BlogNames == {"a.tumblr.com", "b.tumblr.com"}

\* the blogs of the configuration
Configured == {blogs[i] : i \in 1..Len(blogs)}

\* math.MinInt64 and math.MaxInt64, scaled to TLC's 32 bit integers: all the
\* code needs of them is that no post id lies outside
MinInt64 == -2147483647
MaxInt64 == 2147483647

PostIDs == 1..MaxID
TimeStamps == 1..MaxTs

RECURSIVE SeqsUpTo(_, _)
SeqsUpTo(S, n) ==
    IF n = 0 THEN {<<>>}
    ELSE LET shorter == SeqsUpTo(S, n - 1)
         IN  shorter \cup {Append(q, x) : q \in {r \in shorter : Len(r) = n - 1}, x \in S}

\* the pages the upstream may answer with
FreePages == SeqsUpTo(PostIDs, MaxPageLen)

\* database.GetHighestID / SetHighestID
GetHighestID(blog) == db[blog]
SetHighestID(blog, id) == [db EXCEPT ![blog] = id]

\* newScrapeContext lines 151-156: the stored mark unless Rescrape
startHighestID(r, blog) == IF ~r THEN GetHighestID(blog) ELSE MinInt64

\* the running minimum and maximum of sc.Scrape lines 212-217
newHighestID(hi, id) == IF id > hi THEN id ELSE hi
newLowestID(lo, id) == IF id < lo THEN id ELSE lo

\* lines 219-222: before moves to the post's timestamp when unset or later
newBefore(before, ts) == IF before = 0 \/ ts < before THEN ts ELSE before

\* the earliest of the times before has held, with the value t it takes now
newEarliest(e, t) == IF t # 0 /\ (e = 0 \/ t < e) THEN t ELSE e

\* line 224: the post was reached by the previous scrape
caughtUpStrict(id, initial) == id < initial
caughtUp(id, initial) == id <= initial

\* handleUpdate lines 129-134: the blog's scrape failed
scrapeFailedNever(e) == FALSE
scrapeFailed(e) == e # "nil"

noTasks == [k \in {"error", "canceled"} |-> 0]

\* the update command starts with configuration cfgBlogs; the store holds a
\* mark for each configured blog (a blog without an entry reads as 0)
ScInit(cfgBlogs) ==
    /\ blogs = cfgBlogs
    /\ db \in [BlogNames -> 0..MaxID]
    /\ \A b \in BlogNames \ Configured : db[b] = 0
    /\ hasUser \in BOOLEAN
    /\ loginState = 0
    /\ cancelledAt = ""
    /\ hpc = "next"
    /\ bi = 1
    /\ ret = [id |-> 0, err |-> "nil"]
    /\ rescrape = FALSE
    /\ sc = [state |-> "TryUseAPI", offset |-> 0, before |-> 0,
             lowestID |-> MaxInt64, highestID |-> MinInt64]
    /\ initialHighestID = MinInt64
    /\ page = <<>>
    /\ pi = 0
    /\ ndl = 0
    /\ drv = "idle"
    /\ err = "nil"
    /\ egErr = "nil"
    /\ ctxDone = FALSE
    /\ tRunning = 0
    /\ tRet = noTasks
    /\ fetches = 0
    /\ reqURL = ""
    /\ stale = FALSE
    /\ seen = {}
    /\ processed = <<>>
    /\ stores = <<>>
    /\ earliest = 0
    /\ tries = 0
    /\ logins = 0

\* the semaphore of the scrape contexts: capacity is config.Concurrency
ScSemInit ==
    /\ capacity \in 1..MaxCapacity
    /\ allocated = 0
    /\ waiters = <<>>
    /\ closed = {}
    /\ spc = [t \in Threads |-> "idle"]
    /\ sprio = [t \in Threads |-> 0]

\* no scrape exists (the state of Part 3 in the other parts' runs)
ScQuiet ==
    /\ blogs = <<>>
    /\ db = [b \in BlogNames |-> 0]
    /\ hasUser = FALSE
    /\ loginState = 0
    /\ cancelledAt = ""
    /\ hpc = "done"
    /\ bi = 1
    /\ ret = [id |-> 0, err |-> "nil"]
    /\ rescrape = FALSE
    /\ sc = [state |-> "TryUseAPI", offset |-> 0, before |-> 0,
             lowestID |-> MaxInt64, highestID |-> MinInt64]
    /\ initialHighestID = MinInt64
    /\ page = <<>>
    /\ pi = 0
    /\ ndl = 0
    /\ drv = "idle"
    /\ err = "nil"
    /\ egErr = "nil"
    /\ ctxDone = FALSE
    /\ tRunning = 0
    /\ tRet = noTasks
    /\ fetches = 0
    /\ reqURL = ""
    /\ stale = FALSE
    /\ seen = {}
    /\ processed = <<>>
    /\ stores = <<>>
    /\ earliest = 0
    /\ tries = 0
    /\ logins = 0
    /\ upstream = [feed |-> <<>>, public |-> TRUE]
    /\ blogConfig = [Rescrape |-> FALSE, Before |-> 0]

\* the runs in which the upstream's answers and the blog's settings are
\* drawn step by step keep nothing of them
UpstreamFree ==
    /\ upstream = [feed |-> <<>>, public |-> TRUE]
    /\ blogConfig = [Rescrape |-> FALSE, Before |-> 0]

\* the termination signal has cancelled the root context
rootCancelled == cancelledAt # ""

\* the error a request made under the scrape's context may end with
requestErrors == IF ctxDone THEN {"canceled"} ELSE {"error"}

\* handleUpdate line 128 into Scraper.Scrape lines 76-87 and sc.Scrape line
\* 186: MkdirAll or GetHighestID fails, or the context is built (with a new
\* semaphore and a new error group under the root context); r and cfgBefore
\* are the blog's Rescrape and Before settings
ScStart(r, cfgBefore, ok) ==
    /\ hpc = "next"
    /\ bi <= Len(blogs)
    /\ rescrape' = r
    /\ IF ok
       THEN /\ sc' = [state |-> "TryUseAPI", offset |-> 0, before |-> cfgBefore,
                      lowestID |-> MaxInt64,
                      highestID |-> startHighestID(r, blogs[bi])]
            /\ initialHighestID' = startHighestID(r, blogs[bi])
            /\ hpc' = "scrape"
            /\ drv' = "fetch"
            /\ UNCHANGED ret
       ELSE /\ ret' = [id |-> 0, err |-> "error"]
            /\ hpc' = "returned"
            /\ UNCHANGED <<sc, initialHighestID, drv>>
    /\ allocated' = 0
    /\ waiters' = <<>>
    /\ closed' = {}
    /\ err' = "nil"
    /\ egErr' = "nil"
    /\ ctxDone' = rootCancelled
    /\ tRunning' = 0
    /\ tRet' = noTasks
    /\ page' = <<>>
    /\ pi' = 0
    /\ ndl' = 0
    /\ fetches' = 0
    /\ reqURL' = ""
    /\ stale' = FALSE
    /\ seen' = {}
    /\ processed' = <<>>
    /\ earliest' = IF ok THEN cfgBefore ELSE 0
    /\ tries' = 0
    /\ logins' = 0
    /\ UNCHANGED <<blogs, db, hasUser, loginState, cancelledAt, bi, stores, scEnv>>

\* scrapeBlogMaybe lines 346-357: the endpoint the page request goes to
postsURL(state) ==
    IF state \in {"TryUseIndashAPI", "UseIndashAPI"} THEN "indash" ELSE "api"

\* line 365: the public endpoint's 404 makes the scrape try the indash
\* endpoint
retryIndashAnyState(state, status, user) == status = 404 /\ user
retryIndash(state, status, user) == state = "TryUseAPI" /\ status = 404 /\ user

\* line 369: the indash endpoint's refusal makes the scrape log in
needsLogin(state, status) == state = "TryUseIndashAPI" /\ status # 404

\* scrapeBlogMaybe line 338: sc.sema.Acquire(sc.offset), and with the slot
\* lines 346-357: the request is sent
DrvAcquireFetch ==
    /\ hpc = "scrape"
    /\ drv = "fetch"
    /\ semAcquire("drv", sc.offset)
    /\ IF semAcquired
       THEN drv' = "request" /\ reqURL' = postsURL(sc.state) /\ tries' = tries + 1
       ELSE drv' = "blockedFetch" /\ UNCHANGED <<reqURL, tries>>
    /\ UNCHANGED <<stale, blogs, db, hasUser, loginState, cancelledAt, hpc, bi, ret, rescrape, sc,
                   initialHighestID, page, pi, ndl, err, egErr, ctxDone, tRunning,
                   tRet, fetches, seen, processed, stores, scEnv, earliest, logins>>

\* sc.Scrape returns e: the deferred errgroup.Wait comes next (the loop's
\* locals are gone: where it returns from the range loop, page and pi are
\* cleared)
driverReturns(e) ==
    /\ err' = e
    /\ drv' = "wait"

\* lines 359-361: doGetRequest fails; the deferred Release runs
DrvRequestError(e) ==
    /\ hpc = "scrape"
    /\ drv = "request"
    /\ e \in requestErrors
    /\ semRelease
    /\ driverReturns(e)
    /\ UNCHANGED <<blogs, db, hasUser, loginState, cancelledAt, hpc, bi, ret, rescrape, sc,
                   initialHighestID, page, pi, ndl, egErr, ctxDone, tRunning,
                   tRet, fetches, reqURL, stale, seen, processed, stores, scFrame>>

\* lines 364-378: a status other than 200; `login` is whether the login
\* procedure of LoginOnce succeeds when it runs
DrvRequestStatus(status, login) ==
    /\ hpc = "scrape"
    /\ drv = "request"
    /\ ~ctxDone
    /\ status # 200
    /\ semRelease
    /\ IF retryIndash(sc.state, status, hasUser)
       THEN /\ sc' = [sc EXCEPT !.state = "TryUseIndashAPI"]
            /\ drv' = "fetch"
            /\ UNCHANGED <<err, loginState>>
       ELSE IF needsLogin(sc.state, status)
       THEN IF loginState # 0 \/ login
            THEN /\ loginState' = 1
                 /\ sc' = [sc EXCEPT !.state = "UseIndashAPI"]
                 /\ drv' = "fetch"
                 /\ UNCHANGED err
            ELSE /\ driverReturns("error")
                 /\ UNCHANGED <<sc, loginState>>
       ELSE /\ driverReturns("error")
            /\ UNCHANGED <<sc, loginState>>
    /\ logins' = IF ~retryIndash(sc.state, status, hasUser) /\ needsLogin(sc.state, status)
                 THEN logins + 1 ELSE logins
    /\ UNCHANGED <<blogs, db, hasUser, cancelledAt, hpc, bi, ret, rescrape,
                   initialHighestID, page, pi, ndl, egErr, ctxDone, tRunning,
                   tRet, fetches, reqURL, stale, seen, processed, stores, scEnv,
                   earliest, tries>>

\* lines 380-389 and 204-209: reading or decoding the 200 answer fails
DrvRequestDecodeError ==
    /\ hpc = "scrape"
    /\ drv = "request"
    /\ ~ctxDone
    /\ semRelease
    /\ driverReturns("error")
    /\ UNCHANGED <<blogs, db, hasUser, loginState, cancelledAt, hpc, bi, ret, rescrape, sc,
                   initialHighestID, page, pi, ndl, egErr, ctxDone, tRunning,
                   tRet, fetches, reqURL, stale, seen, processed, stores, scFrame>>

\* the page p holds posts, none of them below the lowest id seen so far
noFreshPost(p, lowest) ==
    p # <<>> /\ \A i \in DOMAIN p : p[i] >= lowest

\* lines 380-395 and 196-202: status 200 with page p; TryUseAPI becomes
\* UseAPI; an empty page ends the scrape
DrvRequestOK(p) ==
    /\ hpc = "scrape"
    /\ drv = "request"
    /\ ~ctxDone
    /\ p \in FreePages
    /\ fetches < MaxPages \/ p = <<>>
    /\ fetches' = IF p = <<>> THEN fetches ELSE fetches + 1
    /\ semRelease
    /\ sc' = [sc EXCEPT !.state = IF @ = "TryUseAPI" THEN "UseAPI" ELSE @]
    /\ page' = p
    /\ stale' = noFreshPost(p, sc.lowestID)
    /\ IF Len(p) = 0
       THEN /\ driverReturns("nil")
            /\ pi' = 0
       ELSE /\ drv' = "post"
            /\ pi' = 1
            /\ UNCHANGED err
    /\ tries' = 0
    /\ UNCHANGED <<reqURL, blogs, db, hasUser, loginState, cancelledAt, hpc, bi, ret, rescrape,
                   initialHighestID, ndl, egErr, ctxDone, tRunning,
                   tRet, seen, processed, stores, scEnv, earliest, logins>>

\* an offset that counts pages instead of posts
newOffsetOne(offset, n) == offset + 1

\* line 238: sc.offset += len(res.Response.Posts)
newOffset(offset, n) == offset + n

\* the range loop goes on to the next post, or line 238 and the next page
nextPost(s) ==
    IF pi < Len(page)
    THEN /\ pi' = pi + 1
         /\ drv' = "post"
         /\ sc' = s
         /\ UNCHANGED page
    ELSE /\ pi' = 0
         /\ page' = <<>>
         /\ drv' = "fetch"
         /\ sc' = [s EXCEPT !.offset = newOffset(@, Len(page))]

\* lines 211-236 for the post at pi: `what` is "skip" (handleReblogs drops
\* it), "fail" (scrapePost returns an error) or "media" (scrapePost finds n
\* media URLs)
DrvPost(ts, what, n) ==
    /\ hpc = "scrape"
    /\ drv = "post"
    /\ LET id == page[pi]
           s  == [sc EXCEPT !.lowestID = newLowestID(@, id),
                            !.highestID = newHighestID(@, id),
                            !.before = newBefore(@, ts)]
       IN  /\ seen' = seen \cup {id}
           /\ earliest' = newEarliest(earliest, s.before)
           /\ IF caughtUp(id, initialHighestID)
              THEN /\ sc' = s
                   /\ driverReturns("nil")
                   /\ page' = <<>>
                   /\ pi' = 0
                   /\ UNCHANGED <<ndl, processed>>
              ELSE IF what = "skip"
              THEN /\ nextPost(s)
                   /\ UNCHANGED <<ndl, processed, err>>
              ELSE IF what = "fail"
              THEN /\ sc' = s
                   /\ processed' = Append(processed, [id |-> id, page |-> fetches])
                   /\ driverReturns("error")
                   /\ page' = <<>>
                   /\ pi' = 0
                   /\ UNCHANGED ndl
              ELSE IF n = 0
              THEN /\ processed' = Append(processed, [id |-> id, page |-> fetches])
                   /\ nextPost(s)
                   /\ UNCHANGED <<ndl, err>>
              ELSE /\ processed' = Append(processed, [id |-> id, page |-> fetches])
                   /\ sc' = s
                   /\ ndl' = n
                   /\ drv' = "dl"
                   /\ UNCHANGED <<page, pi, err>>
    /\ UNCHANGED <<blogs, db, hasUser, loginState, cancelledAt, hpc, bi, ret, rescrape,
                   initialHighestID, egErr, ctxDone, tRunning,
                   tRet, fetches, reqURL, stale, stores, allocated, waiters, closed, scEnv,
                   tries, logins>>

\* downloadFileAsync line 550: errgroup.Go starts the task; scrapePost goes on
spawned ==
    /\ tRunning' = tRunning + 1
    /\ ndl' = ndl - 1
    /\ IF ndl = 1 THEN nextPost(sc) ELSE drv' = "dl" /\ UNCHANGED <<page, pi, sc>>

\* downloadFileAsync line 549: sc.sema.Acquire(sc.offset), then line 550
DrvDownloadAsync ==
    /\ hpc = "scrape"
    /\ drv = "dl"
    /\ semAcquire("drv", sc.offset)
    /\ IF semAcquired
       THEN spawned
       ELSE /\ drv' = "blockedDl"
            /\ UNCHANGED <<tRunning, ndl, page, pi, sc>>
    /\ UNCHANGED <<blogs, db, hasUser, loginState, cancelledAt, hpc, bi, ret, rescrape,
                   initialHighestID, err, egErr, ctxDone,
                   tRet, fetches, reqURL, stale, seen, processed, stores, scFrame>>

\* the driver's <-ch returns: Release closed its channel
DrvWake ==
    /\ hpc = "scrape"
    /\ drv \in {"blockedFetch", "blockedDl"}
    /\ "drv" \in closed
    /\ closed' = closed \ {"drv"}
    /\ IF drv = "blockedFetch"
       THEN /\ drv' = "request"
            /\ reqURL' = postsURL(sc.state)
            /\ tries' = tries + 1
            /\ UNCHANGED <<tRunning, ndl, page, pi, sc>>
       ELSE spawned /\ UNCHANGED <<reqURL, tries>>
    /\ UNCHANGED <<stale, blogs, db, hasUser, loginState, cancelledAt, hpc, bi, ret, rescrape,
                   initialHighestID, err, egErr, ctxDone,
                   tRet, fetches, seen, processed, stores,
                   allocated, waiters, scEnv, earliest, logins>>

\* a task function that returns without releasing its slot
taskExitKeepsSlot == UNCHANGED <<allocated, waiters, closed>>

\* line 551: defer sc.sema.Release() of the task function
taskExit == semRelease

\* lines 551-552: a task's downloadFile returns e and the deferred Release
\* runs; the group has something to record only for an error, and only
\* while it has recorded none (errOnce)
TaskReturn(e) ==
    /\ tRunning > 0
    /\ e \in {"nil"} \cup requestErrors
    /\ taskExit
    /\ tRunning' = tRunning - 1
    /\ tRet' = IF e = "nil" \/ egErr # "nil" THEN tRet ELSE [tRet EXCEPT ![e] = @ + 1]
    /\ UNCHANGED <<blogs, db, hasUser, loginState, cancelledAt, hpc, bi, ret, rescrape, sc,
                   initialHighestID, page, pi, ndl, drv, err, egErr, ctxDone,
                   fetches, reqURL, stale, seen, processed, stores, scFrame>>

\* an error group that forgets the errors of its tasks
groupErrDropped(first, e) == first

\* errgroup.Group.Go's errOnce: the group keeps the first error it is given
groupErr(first, e) == IF first = "nil" THEN e ELSE first

\* errgroup.Group.Go's wrapper for a task that returned an error: the
\* first error is kept and cancels the group's context; the task is done
TaskDone(e) ==
    /\ tRet[e] > 0
    /\ tRet' = [tRet EXCEPT ![e] = @ - 1]
    /\ egErr' = groupErr(egErr, e)
    /\ ctxDone' = TRUE
    /\ UNCHANGED <<blogs, db, hasUser, loginState, cancelledAt, hpc, bi, ret, rescrape, sc,
                   initialHighestID, page, pi, ndl, drv, err,
                   tRunning, fetches, reqURL, stale, seen, processed, stores,
                   allocated, waiters, closed, scFrame>>

\* an errgroup.Wait that returns without waiting
waitReturnsAtOnce(running, pending) == TRUE

\* errgroup.Wait returns when every task function has returned and the
\* group's wrapper has recorded its result
waitReturns(running, pending) ==
    running = 0 /\ \A k \in DOMAIN pending : pending[k] = 0

\* a Scrape that prefers the group's error to the driver's
surfacedGroupFirst(drvErr, grpErr) == IF grpErr = "nil" THEN drvErr ELSE grpErr

\* lines 179-184: the deferred function keeps the driver's error and takes
\* the group's only when the driver returned nil
surfaced(drvErr, grpErr) == IF drvErr = "nil" THEN grpErr ELSE drvErr

\* sc.Scrape lines 179-184 and Scraper.Scrape lines 89-94: errgroup.Wait
\* returns when every task is done; the group's error is taken when the
\* driver had none; the result is (0, err) or (sc.highestID, nil)
DrvWait ==
    /\ hpc = "scrape"
    /\ drv = "wait"
    /\ waitReturns(tRunning, tRet)
    /\ LET e == surfaced(err, egErr)
       IN  /\ err' = e
           /\ ret' = [id |-> IF e # "nil" THEN 0 ELSE sc.highestID, err |-> e]
    /\ ctxDone' = TRUE
    /\ drv' = "idle"
    /\ hpc' = "returned"
    /\ UNCHANGED <<blogs, db, hasUser, loginState, cancelledAt, bi, rescrape, sc,
                   initialHighestID, page, pi, ndl, egErr, tRunning,
                   tRet, fetches, reqURL, stale, seen, processed, stores,
                   allocated, waiters, closed, scFrame>>

\* handleUpdate lines 129-141: a failed scrape ends the run; otherwise
\* SetHighestID stores the mark (or fails and ends the run) and the loop
\* goes to the next blog
HandleResult(ok) ==
    /\ hpc = "returned"
    /\ IF scrapeFailed(ret.err)
       THEN /\ hpc' = "failed"
            /\ UNCHANGED <<blogs, db, bi, stores>>
       ELSE IF ok
       THEN /\ db' = SetHighestID(blogs[bi], ret.id)
            /\ stores' = Append(stores, <<blogs[bi], ret.id>>)
            /\ bi' = bi + 1
            /\ hpc' = IF bi = Len(blogs) THEN "done" ELSE "next"
       ELSE /\ hpc' = "failed"
            /\ UNCHANGED <<blogs, db, bi, stores>>
    /\ UNCHANGED <<blogs, hasUser, loginState, cancelledAt, ret, rescrape, sc,
                   initialHighestID, page, pi, ndl, drv, err, egErr, ctxDone, tRunning,
                   tRet, fetches, reqURL, stale, seen, processed,
                   allocated, waiters, closed, scFrame>>

\* app.go terminationSignalContext: SIGINT/SIGQUIT/SIGTERM cancels the root
\* context and with it the context of the running scrape
RootCancel ==
    /\ ~rootCancelled
    /\ hpc \in {"next", "scrape", "returned"}
    /\ cancelledAt' = IF hpc = "scrape" THEN drv ELSE hpc
    /\ ctxDone' = TRUE
    /\ UNCHANGED <<blogs, db, hasUser, loginState, hpc, bi, ret, rescrape, sc,
                   initialHighestID, page, pi, ndl, drv, err, egErr, tRunning,
                   tRet, fetches, reqURL, stale, seen, processed, stores,
                   allocated, waiters, closed, scFrame>>

\* the statuses the listing endpoints answer with
PageStatuses == {200, 404, 500}

\* what DrvPost draws for a post
PostKinds == {"skip", "fail", "media"}

-----------------------------------------------------------------------------
(***************************************************************************)
(* Part 4: account.LoginOnce                                               *)
(*                                                                         *)
(* Each caller calls LoginOnce once; the callers run concurrently, so any  *)
(* of them may also start after another has returned.                      *)
(***************************************************************************)

Callers == 1..NumCallers

LoginInit ==
    /\ hasCreds \in BOOLEAN
    /\ loginLock = 0
    /\ lpc = [c \in Callers |-> "idle"]
    /\ lres = [c \in Callers |-> "none"]
    /\ attempts = <<>>

\* nobody calls LoginOnce (the state of Part 4 in the other parts' runs)
LoginQuiet ==
    /\ hasCreds = FALSE
    /\ loginLock = 0
    /\ lpc = [c \in Callers |-> "idle"]
    /\ lres = [c \in Callers |-> "none"]
    /\ attempts = <<>>

\* a latch test that never turns a caller away
latchTakenNever(state, from) == FALSE

\* transitionLoginState lines 68 and 75: the latch is not in state `from`
latchTaken(state, from) == state # from

\* LoginOnce returns e to caller c
loginReturns(c, e) ==
    /\ lpc' = [lpc EXCEPT ![c] = "returned"]
    /\ lres' = [lres EXCEPT ![c] = e]

\* LoginOnce lines 43-45 and transitionLoginState lines 68-70: without
\* credentials an error; with the latch set, nil; else on to the lock
LoginCall(c) ==
    /\ lpc[c] = "idle"
    /\ IF ~hasCreds
       THEN loginReturns(c, "error")
       ELSE IF latchTaken(loginState, 0)
       THEN loginReturns(c, "nil")
       ELSE /\ lpc' = [lpc EXCEPT ![c] = "lock"]
            /\ UNCHANGED lres
    /\ UNCHANGED <<hasCreds, loginLock, loginState, attempts, loginFrame>>

\* line 72: loginLock.Lock()
LoginLock(c) ==
    /\ lpc[c] = "lock"
    /\ loginLock = 0
    /\ loginLock' = c
    /\ lpc' = [lpc EXCEPT ![c] = "locked"]
    /\ UNCHANGED <<hasCreds, lres, loginState, attempts, loginFrame>>

\* lines 75-77: under the lock, the latch is read again; set, nil is
\* returned (and the deferred Unlock runs); else f starts
LoginRecheck(c) ==
    /\ lpc[c] = "locked"
    /\ IF latchTaken(loginState, 0)
       THEN /\ loginReturns(c, "nil")
            /\ loginLock' = 0
       ELSE /\ lpc' = [lpc EXCEPT ![c] = "f"]
            /\ UNCHANGED <<lres, loginLock>>
    /\ UNCHANGED <<hasCreds, loginState, attempts, loginFrame>>

\* lines 79-85 with LoginOnce's f (lines 47-56): consent and login end with
\* success (the latch is stored) or with an error (it is not); the
\* deferred Unlock runs
LoginAttempt(c, ok) ==
    /\ lpc[c] = "f"
    /\ attempts' = Append(attempts, [by |-> c, ok |-> ok, op |-> "login"])
    /\ loginState' = IF ok THEN 1 ELSE loginState
    /\ loginReturns(c, IF ok THEN "nil" ELSE "error")
    /\ loginLock' = 0
    /\ UNCHANGED <<hasCreds, loginFrame>>


\* Logout (lines 59-65) into transitionLoginState(1, 0, f) lines 68-70: with
\* the latch not set, nil at once; else on to the lock
LogoutCall(c) ==
    /\ lpc[c] = "idle"
    /\ IF latchTaken(loginState, 1)
       THEN loginReturns(c, "nil")
       ELSE /\ lpc' = [lpc EXCEPT ![c] = "lockOut"]
            /\ UNCHANGED lres
    /\ UNCHANGED <<hasCreds, loginLock, loginState, attempts, loginFrame>>

\* line 72: loginLock.Lock(), for Logout
LogoutLock(c) ==
    /\ lpc[c] = "lockOut"
    /\ loginLock = 0
    /\ loginLock' = c
    /\ lpc' = [lpc EXCEPT ![c] = "lockedOut"]
    /\ UNCHANGED <<hasCreds, lres, loginState, attempts, loginFrame>>

\* lines 75-77, for Logout: under the lock the latch is read again
LogoutRecheck(c) ==
    /\ lpc[c] = "lockedOut"
    /\ IF latchTaken(loginState, 1)
       THEN /\ loginReturns(c, "nil")
            /\ loginLock' = 0
       ELSE /\ lpc' = [lpc EXCEPT ![c] = "fOut"]
            /\ UNCHANGED <<lres, loginLock>>
    /\ UNCHANGED <<hasCreds, loginState, attempts, loginFrame>>

\* lines 79-85 with Logout's f (lines 60-64): the logout request succeeds
\* (the latch is cleared) or fails (it is not); the deferred Unlock runs
LogoutAttempt(c, ok) ==
    /\ lpc[c] = "fOut"
    /\ attempts' = Append(attempts, [by |-> c, ok |-> ok, op |-> "logout"])
    /\ loginState' = IF ok THEN 0 ELSE loginState
    /\ loginReturns(c, IF ok THEN "nil" ELSE "error")
    /\ loginLock' = 0
    /\ UNCHANGED <<hasCreds, loginFrame>>

\* a caller whose call has returned makes another call
CallAgain(c) ==
    /\ lpc[c] = "returned"
    /\ Len(attempts) < MaxCalls
    /\ lpc' = [lpc EXCEPT ![c] = "idle"]
    /\ lres' = [lres EXCEPT ![c] = "none"]
    /\ UNCHANGED <<hasCreds, loginLock, loginState, attempts, loginFrame>>

(***************************************************************************)
(* Part 5: the configuration file                                          *)
(*                                                                         *)
(* A run loads the configuration with LoadConfigOrDefault, and saves it    *)
(* with Config.Save at the end of the update; the process can be killed    *)
(* between any two steps of Save.  The next run loads what is on disk.     *)
(* A file is a sequence of lines of TOML: the concurrency key, then one    *)
(* table per blog; a file whose last line was written in part is torn.     *)
(***************************************************************************)

\* the value LoadConfigOrDefault gives a configuration without concurrency
DefaultConcurrency == 24
\* a concurrency somebody wrote into the file
SetConcurrency == 8

CfgBlogNames == <<"a.tumblr.com", "b.tumblr.com", "c.tumblr.com", "d.tumblr.com">>

\* the configurations somebody may have written to disk: concurrency left
\* out (zero) or set, and up to MaxCfgBlogs blogs
DiskConfigs ==
    [Concurrency : {0, SetConcurrency},
     Blogs : {SubSeq(CfgBlogNames, 1, n) : n \in 0..MaxCfgBlogs}]

\* no file at that path
NoCfgFile == [lines |-> <<>>, torn |-> TRUE, exists |-> FALSE]

\* the zero Config
ZeroConfig == [Concurrency |-> 0, Blogs |-> <<>>]

\* what a load gives: kind is "ok", "error", "notexist" or "panic"; cfg is
\* meaningful when kind is "ok"
NoResult == [kind |-> "none", cfg |-> ZeroConfig]

\* toml.NewEncoder(data).Encode(s): the plain keys first, then the tables
Encode(cfg) ==
    <<[k |-> "concurrency", n |-> cfg.Concurrency, name |-> ""]>> \o
    [i \in 1..Len(cfg.Blogs) |-> [k |-> "blogs", n |-> 0, name |-> cfg.Blogs[i]]]

CompleteFile(cfg) == [lines |-> Encode(cfg), torn |-> FALSE, exists |-> TRUE]

\* the names of the blog tables among the lines, in their order
RECURSIVE blogLines(_)
blogLines(ls) ==
    IF ls = <<>> THEN <<>>
    ELSE IF Head(ls).k = "blogs" THEN <<Head(ls).name>> \o blogLines(Tail(ls))
    ELSE blogLines(Tail(ls))

\* the value of the concurrency key among the lines, zero when it is absent
RECURSIVE concurrencyLine(_)
concurrencyLine(ls) ==
    IF ls = <<>> THEN 0
    ELSE IF Head(ls).k = "concurrency" THEN Head(ls).n
    ELSE concurrencyLine(Tail(ls))

\* toml.DecodeFile into a fresh Config: a key the file does not hold keeps
\* its zero value; a torn line is a syntax error
loadConfig(f) ==
    IF ~f.exists THEN [kind |-> "notexist", cfg |-> ZeroConfig]
    ELSE IF f.torn THEN [kind |-> "error", cfg |-> ZeroConfig]
    ELSE [kind |-> "ok",
          cfg |-> [Concurrency |-> concurrencyLine(f.lines),
                   Blogs |-> blogLines(f.lines)]]

\* lines 59-61: a concurrency of zero or less becomes the default
withDefaults(cfg) ==
    [cfg EXCEPT !.Concurrency = IF @ <= 0 THEN DefaultConcurrency ELSE @]

\* LoadConfigOrDefault: the file, then the backup when the file does not
\* exist.  loadConfig returns a nil *Config with every error, so when neither
\* file exists cfg is nil at line 59 and cfg.Concurrency panics.
LoadConfigOrDefault(fs) ==
    LET first == loadConfig(fs.path)
        second == loadConfig(fs.bak)
    IN  IF first.kind = "ok" THEN [kind |-> "ok", cfg |-> withDefaults(first.cfg)]
        ELSE IF first.kind # "notexist" THEN [kind |-> "error", cfg |-> ZeroConfig]
        ELSE IF second.kind = "ok" THEN [kind |-> "ok", cfg |-> withDefaults(second.cfg)]
        ELSE IF second.kind # "notexist" THEN [kind |-> "error", cfg |-> ZeroConfig]
        ELSE [kind |-> "panic", cfg |-> ZeroConfig]

\* the files a run may find: each absent or complete
CfgInit ==
    /\ cfgFiles \in [path : {NoCfgFile} \cup {CompleteFile(c) : c \in DiskConfigs},
                     bak : {NoCfgFile} \cup {CompleteFile(c) : c \in DiskConfigs}]
    /\ cpc = "start"
    /\ mem = NoResult
    /\ loadRes = NoResult

\* no configuration is loaded or saved (the state of Part 5 in the other
\* parts' runs)
CfgQuiet ==
    /\ cfgFiles = [path |-> NoCfgFile, bak |-> NoCfgFile]
    /\ cpc = "off"
    /\ mem = NoResult
    /\ loadRes = NoResult

\* app.go:92: the run loads the configuration; with an error (or the panic)
\* the run ends, otherwise it goes on to Save (app.go:143)
CfgLoad ==
    /\ cpc = "start"
    /\ mem' = LoadConfigOrDefault(cfgFiles)
    /\ cpc' = IF mem'.kind = "ok" THEN "lstat" ELSE "exit"
    /\ UNCHANGED <<cfgFiles, loadRes, cfgFrame>>

\* Save, lines 95-103: the configuration is encoded, os.Lstat(path) fails
\* when the run loaded the backup
SaveLstat ==
    /\ cpc = "lstat"
    /\ cpc' = IF cfgFiles.path.exists THEN "rename" ELSE "done"
    /\ UNCHANGED <<cfgFiles, mem, loadRes, cfgFrame>>

\* Save, lines 105-109: os.Rename(path, path + ".bak")
SaveRename(ok) ==
    /\ cpc = "rename"
    /\ IF ok
       THEN /\ cfgFiles' = [path |-> NoCfgFile, bak |-> cfgFiles.path]
            /\ cpc' = "open"
       ELSE /\ cpc' = "done"
            /\ UNCHANGED cfgFiles
    /\ UNCHANGED <<mem, loadRes, cfgFrame>>

\* Save, line 111: ioutil.WriteFile creates the file empty
SaveOpen(ok) ==
    /\ cpc = "open"
    /\ IF ok
       THEN /\ cfgFiles' = [cfgFiles EXCEPT !.path =
                               [lines |-> <<>>, torn |-> FALSE, exists |-> TRUE]]
            /\ cpc' = "write"
       ELSE /\ cpc' = "done"
            /\ UNCHANGED cfgFiles
    /\ UNCHANGED <<mem, loadRes, cfgFrame>>

\* Save, line 111: ioutil.WriteFile writes the data; the next line reaches
\* the file, and with the last line WriteFile returns
SaveWrite(ok) ==
    /\ cpc = "write"
    /\ LET data == Encode(mem.cfg)
           n == Len(cfgFiles.path.lines)
       IN  IF ok
           THEN /\ cfgFiles' = [cfgFiles EXCEPT !.path.lines = Append(@, data[n + 1])]
                /\ cpc' = IF n + 1 = Len(data) THEN "remove" ELSE "write"
           ELSE /\ cpc' = "done"
                /\ UNCHANGED cfgFiles
    /\ UNCHANGED <<mem, loadRes, cfgFrame>>

\* Save, line 116: os.Remove(path + ".bak")
SaveRemove(ok) ==
    /\ cpc = "remove"
    /\ cfgFiles' = IF ok THEN [cfgFiles EXCEPT !.bak = NoCfgFile] ELSE cfgFiles
    /\ cpc' = "done"
    /\ UNCHANGED <<mem, loadRes, cfgFrame>>

\* the process is killed between two steps of Save; while the data is being
\* written the line in progress may have reached the file in part
CfgCrash(torn) ==
    /\ cpc \in {"lstat", "rename", "open", "write", "remove"}
    /\ cfgFiles' = IF cpc = "write" /\ torn
                   THEN [cfgFiles EXCEPT !.path.torn = TRUE]
                   ELSE cfgFiles
    /\ cpc' = "crashed"
    /\ UNCHANGED <<mem, loadRes, cfgFrame>>

\* app.go:92 of the next run
CfgReload ==
    /\ cpc \in {"done", "crashed"}
    /\ loadRes' = LoadConfigOrDefault(cfgFiles)
    /\ cpc' = "reloaded"
    /\ UNCHANGED <<cfgFiles, mem, cfgFrame>>
-----------------------------------------------------------------------------
(***************************************************************************)
(* Specifications                                                          *)
(***************************************************************************)

SemNext ==
    \/ \E t \in Threads, p \in Priorities : Acquire(t, p)
    \/ \E t \in Threads : AcquireReturn(t)
    \/ \E t \in Threads : Release(t)

\* the semaphore under any number of callers and priorities
SemSpecInit == SemInit /\ DlQuiet /\ ScQuiet /\ LoginQuiet /\ CfgQuiet

SemSpec == SemSpecInit /\ [][SemNext]_vars

\* callers of one priority class only: every Acquire passes priority 0
SemSameNext ==
    \/ \E t \in Threads : Acquire(t, 0)
    \/ \E t \in Threads : AcquireReturn(t)
    \/ \E t \in Threads : Release(t)

\* steady release: a holder eventually calls Release, and a caller whose
\* channel was closed eventually returns from <-ch (the Go scheduler runs
\* every runnable goroutine); nothing obliges new callers to arrive
SemFairness ==
    \A t \in Threads : WF_vars(Release(t)) /\ WF_vars(AcquireReturn(t))

SemFairSpec == SemSpecInit /\ [][SemSameNext]_vars /\ SemFairness

\* no semaphore caller exists (the state of Part 1 in Part 2's runs)
SemQuiet ==
    /\ capacity = 1
    /\ allocated = 0
    /\ waiters = <<>>
    /\ closed = {}
    /\ spc = [t \in Threads |-> "idle"]
    /\ sprio = [t \in Threads |-> 0]

DlNext ==
    \/ \E t \in DTasks : DlStart(t)
    \/ \E t \in DTasks : DlLstat(t)
    \/ \E t \in DTasks : DlGetError(t)
    \/ \E t \in DTasks, st \in Statuses : DlGetStatus(t, st)
    \/ \E t \in DTasks, h \in Headers : DlGetOK(t, h)
    \/ \E t \in DTasks : DlLstat2(t)
    \/ \E t \in DTasks : DlAcquire(t)
    \/ \E t \in DTasks : DlOpen(t)
    \/ \E t \in DTasks : DlCopy(t)
    \/ \E t \in DTasks : DlClose(t)
    \/ \E t \in DTasks : DlChtimes(t)
    \/ \E t \in DTasks : DlRelease(t)

\* the download tasks of one scrape, running concurrently
DlSpecInit == DlInit /\ SemQuiet /\ ScQuiet /\ LoginQuiet /\ CfgQuiet

DlSpec == DlSpecInit /\ [][DlNext]_vars

ScNext ==
    \/ \E r \in BOOLEAN, b \in {0} \cup TimeStamps, ok \in BOOLEAN : ScStart(r, b, ok)
    \/ DrvAcquireFetch
    \/ \E e \in {"error", "canceled"} : DrvRequestError(e)
    \/ \E st \in PageStatuses, login \in BOOLEAN : DrvRequestStatus(st, login)
    \/ DrvRequestDecodeError
    \/ \E p \in FreePages : DrvRequestOK(p)
    \/ \E ts \in TimeStamps, what \in PostKinds, n \in 0..MaxUrls : DrvPost(ts, what, n)
    \/ DrvDownloadAsync
    \/ DrvWake
    \/ \E e \in {"nil", "error", "canceled"} : TaskReturn(e)
    \/ \E e \in {"error", "canceled"} : TaskDone(e)
    \/ DrvWait
    \/ \E ok \in BOOLEAN : HandleResult(ok)
    \/ RootCancel

ScrapeSpecInit ==
    ScInit(<<"a.tumblr.com">>) /\ UpstreamFree /\ ScSemInit /\ DlQuiet /\ LoginQuiet /\ CfgQuiet

\* the update command run on a configuration of one blog
ScrapeSpec == ScrapeSpecInit /\ [][ScNext]_vars

LoginNext ==
    \/ \E c \in Callers : LoginCall(c)
    \/ \E c \in Callers : LoginLock(c)
    \/ \E c \in Callers : LoginRecheck(c)
    \/ \E c \in Callers, ok \in BOOLEAN : LoginAttempt(c, ok)

LoginSpecInit == LoginInit /\ SemQuiet /\ DlQuiet /\ ScQuiet /\ CfgQuiet

\* scrape contexts calling LoginOnce, concurrently or one after another
LoginSpec == LoginSpecInit /\ [][LoginNext]_vars


\* handleUpdate on a configuration of two blogs, no account, one slot,
\* an empty store
UpdateSpecInit ==
    /\ ScInit(<<"a.tumblr.com", "b.tumblr.com">>)
    /\ UpstreamFree
    /\ ScSemInit
    /\ DlQuiet
    /\ LoginQuiet
    /\ CfgQuiet
    /\ db = [b \in BlogNames |-> 0]
    /\ hasUser = FALSE
    /\ capacity = 1

\* the update command run on a configuration of two blogs
UpdateSpec == UpdateSpecInit /\ [][ScNext]_vars

\* the timestamps of the bookkeeping runs: 0 is the zero time.Time (the
\* instant for which IsZero holds, the value of an unset `before`), which
\* time.Unix yields for a post whose timestamp field is -62135596800
BookTimes == 0..(MaxTs + 1)

\* the driver's loop without media: every post is dropped by
\* handleReblogs, fails in scrapePost or has no media URL
BookNext ==
    \/ \E r \in BOOLEAN, b \in BookTimes, ok \in BOOLEAN : ScStart(r, b, ok)
    \/ DrvAcquireFetch
    \/ DrvRequestError("error")
    \/ \E st \in PageStatuses, login \in BOOLEAN : DrvRequestStatus(st, login)
    \/ \E p \in FreePages : DrvRequestOK(p)
    \/ \E ts \in BookTimes, what \in PostKinds : DrvPost(ts, what, 0)
    \/ DrvWait
    \/ \E ok \in BOOLEAN : HandleResult(ok)

BookSpecInit ==
    /\ ScInit(<<"a.tumblr.com">>)
    /\ UpstreamFree
    /\ ScSemInit
    /\ DlQuiet
    /\ LoginQuiet
    /\ CfgQuiet
    /\ capacity = 1

\* one scrape of one blog, its pages and timestamps chosen by the upstream
BookSpec == BookSpecInit /\ [][BookNext]_vars

\* the instants of a fixed upstream: a post's timestamp is its id, and 0 is
\* the zero time.Time of an unset Before
RerunTimes == 0..(MaxID + 1)

\* what a fixed upstream may hold: post ids, newest (greatest) first
Feeds == {q \in SeqsUpTo(PostIDs, MaxID) : \A i \in 1..(Len(q) - 1) : q[i] > q[i + 1]}

\* at most lim posts from the head of q
firstPosts(q, lim) == SubSeq(q, 1, IF Len(q) < lim THEN Len(q) ELSE lim)

\* the page a fixed upstream answers a listing request with: the public
\* endpoint is asked with `before` (getAPIPostsURL, no parameter when it is
\* unset) and lists the posts older than that, the indash endpoint is asked
\* with `offset` (getIndashBlogPostsURL) and lists the posts from there on;
\* both are asked for 20 posts and answer with lim or fewer
servedPage(feed, url, before, offset, lim) ==
    IF url = "api"
    THEN LET older(p) == before = 0 \/ p < before
         IN  firstPosts(SelectSeq(feed, older), lim)
    ELSE firstPosts(SubSeq(feed, offset + 1, Len(feed)), lim)

\* a fixed upstream answers the public endpoint the same way every time:
\* 200 for a blog it lists there and 404 for one it does not (any request
\* may still fail with another status)
answers(status) ==
    reqURL = "api" =>
        /\ status = 200 => upstream.public
        /\ status = 404 => ~upstream.public

RerunNext ==
    \/ \E ok \in BOOLEAN : ScStart(blogConfig.Rescrape, blogConfig.Before, ok)
    \/ DrvAcquireFetch
    \/ \E e \in {"error", "canceled"} : DrvRequestError(e)
    \/ \E st \in PageStatuses, login \in BOOLEAN : answers(st) /\ DrvRequestStatus(st, login)
    \/ \E lim \in 1..MaxPageLen :
          /\ answers(200)
          /\ DrvRequestOK(servedPage(upstream.feed, reqURL, sc.before, sc.offset, lim))
    \/ \E what \in PostKinds, n \in 0..MaxUrls : drv = "post" /\ DrvPost(page[pi], what, n)
    \/ DrvDownloadAsync
    \/ DrvWake
    \/ \E e \in {"nil", "error", "canceled"} : TaskReturn(e)
    \/ \E e \in {"error", "canceled"} : TaskDone(e)
    \/ DrvWait
    \/ \E ok \in BOOLEAN : HandleResult(ok)

\* handleUpdate on a configuration that names one blog twice, against an
\* upstream and with blog settings that stay as they are
RerunSpecInit ==
    /\ ScInit(<<"a.tumblr.com", "a.tumblr.com">>)
    /\ upstream \in [feed : Feeds, public : BOOLEAN]
    /\ blogConfig \in [Rescrape : BOOLEAN, Before : RerunTimes]
    /\ ScSemInit
    /\ DlQuiet
    /\ LoginQuiet
    /\ CfgQuiet

\* one blog scraped twice in a row with nothing changing upstream
RerunSpec == RerunSpecInit /\ [][RerunNext]_vars

\* one scrape of a blog with an empty store and no account; what the
\* upstream answers and how the tasks end is free
SlotNext ==
    \/ \E ok \in BOOLEAN : ScStart(FALSE, 0, ok)
    \/ DrvAcquireFetch
    \/ \E e \in {"error", "canceled"} : DrvRequestError(e)
    \/ \E st \in PageStatuses : DrvRequestStatus(st, FALSE)
    \/ \E p \in FreePages : DrvRequestOK(p)
    \/ \E what \in PostKinds, n \in 0..MaxUrls : DrvPost(1, what, n)
    \/ DrvDownloadAsync
    \/ DrvWake
    \/ \E e \in {"nil", "error", "canceled"} : TaskReturn(e)
    \/ \E e \in {"error", "canceled"} : TaskDone(e)
    \/ DrvWait
    \/ \E ok \in BOOLEAN : HandleResult(ok)
    \/ RootCancel

SlotSpecInit ==
    /\ ScInit(<<"a.tumblr.com">>)
    /\ UpstreamFree
    /\ ScSemInit
    /\ DlQuiet
    /\ LoginQuiet
    /\ CfgQuiet
    /\ db = [b \in BlogNames |-> 0]
    /\ hasUser = FALSE

\* every request of a download task completes or fails, so the task
\* function returns and its deferred Release runs; a goroutine whose channel
\* was closed is scheduled and returns from <-ch
SlotFairness ==
    /\ WF_vars(\E e \in {"nil", "error", "canceled"} : TaskReturn(e))
    /\ WF_vars(DrvWake)

SlotFairSpec == SlotSpecInit /\ [][SlotNext]_vars /\ SlotFairness

LatchNext ==
    \/ \E c \in Callers : LoginCall(c)
    \/ \E c \in Callers : LoginLock(c)
    \/ \E c \in Callers : LoginRecheck(c)
    \/ \E c \in Callers, ok \in BOOLEAN : LoginAttempt(c, ok)
    \/ \E c \in Callers : LogoutCall(c)
    \/ \E c \in Callers : LogoutLock(c)
    \/ \E c \in Callers : LogoutRecheck(c)
    \/ \E c \in Callers, ok \in BOOLEAN : LogoutAttempt(c, ok)
    \/ \E c \in Callers : CallAgain(c)

\* callers of LoginOnce and of Logout, concurrently and one after another
LatchSpec == LoginSpecInit /\ [][LatchNext]_vars

(***************************************************************************)
(* The configuration file: one run that loads and saves, killed at any     *)
(* step of Save or not, and the load of the next run                       *)
(***************************************************************************)
ConfigNext ==
    \/ CfgLoad
    \/ SaveLstat
    \/ \E ok \in BOOLEAN : SaveRename(ok)
    \/ \E ok \in BOOLEAN : SaveOpen(ok)
    \/ \E ok \in BOOLEAN : SaveWrite(ok)
    \/ \E ok \in BOOLEAN : SaveRemove(ok)
    \/ \E torn \in BOOLEAN : CfgCrash(torn)
    \/ CfgReload

ConfigSpecInit == CfgInit /\ SemQuiet /\ DlQuiet /\ ScQuiet /\ LoginQuiet

ConfigSpec == ConfigSpecInit /\ [][ConfigNext]_vars
-----------------------------------------------------------------------------
(* Claims about the semaphore *)

\* callers that have returned from Acquire and not yet called Release
Holders == {t \in Threads : spc[t] = "holding"}

\* C1: the number of callers that returned from Acquire and have not yet
\* called Release never exceeds the capacity, and allocated stays in
\* 0..capacity.
C1_CapacityBound ==
    /\ Cardinality(Holders) <= capacity
    /\ allocated \in 0..capacity

\* C1 witness: the semaphore is full, every slot is held by a returned
\* caller, and a further caller is blocked in the heap.
C1_Witness ==
    /\ allocated = capacity
    /\ Cardinality(Holders) = capacity
    /\ Len(waiters) > 0

\* C2: whenever Release wakes a waiter (closes its channel), no waiter that
\* is still pending in the heap has a strictly greater priority.
C2_WakesHighest ==
    [][\A t \in Threads :
          (t \notin closed /\ t \in closed') =>
              \A i \in 1..Len(waiters') : waiters'[i].priority <= sprio[t]]_vars

\* C2 witness: a waiter has been woken while a waiter of strictly lower
\* priority is still pending behind it.
C2_Witness ==
    \E t \in closed : \E i \in 1..Len(waiters) :
        spc[t] = "blocked" /\ waiters[i].priority < sprio[t]

\* C3: with all waiters in one priority class and steady release, every
\* blocked Acquire eventually returns, also while further Acquire calls of
\* that priority keep arriving.
C3_NoStarvation ==
    \A t \in Threads : (spc[t] = "blocked") ~> (spc[t] = "holding")


-----------------------------------------------------------------------------
(* Claims about the download path *)

\* the task has its file open for writing: after os.OpenFile, before Close
OpenForWrite(t) == dpc[t] \in {"copy", "close"}

\* the task is between acquireFile returning true and releaseFile
HoldsLock(t) == dpc[t] \in {"open", "copy", "close", "chtimes", "release"}

\* C4: at most one task has a given path open for writing at any instant; a
\* task has the file open only between an acquireFile of that path that
\* returned true and its releaseFile, and no two tasks are in that window
\* for one path.
C4_OneWriterPerPath ==
    /\ \A t \in DTasks : OpenForWrite(t) => HoldsLock(t) /\ dpath[t] \in lockedFiles
    /\ \A t1, t2 \in DTasks :
          (t1 # t2 /\ HoldsLock(t1) /\ HoldsLock(t2)) => dpath[t1] # dpath[t2]

\* C4 witness: a task is writing while another task stands at acquireFile
\* for the same path.
C4_Witness ==
    \E t1, t2 \in DTasks :
        /\ t1 # t2
        /\ OpenForWrite(t1)
        /\ dpc[t2] = "acquire"
        /\ dpath[t2] = dpath[t1]

\* C5: a file that exists at a final target path holds a complete body and
\* carries the chosen mtime, in every reachable state.
C5_PublishedComplete ==
    \A p \in DOMAIN files :
        files[p].content = "complete" /\ files[p].mtime = "chosen"

\* C6: of two tasks for the same media URL only one ever creates and writes
\* the target file: no task opens (creates or truncates) a path that the
\* other task has already written and returned success for.
C6_NoSecondWriter ==
    [][\A t1, t2 \in DTasks :
          (/\ t1 # t2
           /\ drawurl[t1] = drawurl[t2]
           /\ dpc[t1] = "done" /\ derr[t1] = "nil")
          => dopened'[t2] \cap dopened[t1] \subseteq dopened[t2]]_vars

-----------------------------------------------------------------------------
(***************************************************************************)
(* Claims on the pagination driver and the update loop                     *)
(***************************************************************************)

Max2(a, b) == IF a > b THEN a ELSE b

\* the greatest element of a non-empty set of integers
SetMax(S) == CHOOSE x \in S : \A y \in S : y <= x

\* the mark the store held for the blog when its scrape started
StoredAtStart == db[blogs[bi]]

\* the loop has looked at a post at or below the stored mark
ReachedMark == \E id \in seen : id <= StoredAtStart

\* C7: within one scrape no post id is handed to scrapePost from two
\* different pages (the overlap between consecutive pages is discarded), so
\* every id is processed at most once.
C7_ProcessedOnce ==
    \A i, j \in DOMAIN processed :
        (i # j /\ processed[i].id = processed[j].id)
            => processed[i].page = processed[j].page

\* C8: in a scrape started without rescrape on stored mark H, every post
\* handed to scrapePost has id > H; once the loop has looked at a post with
\* id <= H the driver has returned nil with nothing left to enqueue, and from
\* then on no post is processed, no page is fetched and no task is started.
C8_StopsAtMark ==
    /\ []((hpc \in {"scrape", "returned"} /\ ~rescrape) =>
            /\ \A i \in DOMAIN processed : processed[i].id > StoredAtStart
            /\ ReachedMark =>
                 /\ drv \in {"wait", "idle"}
                 /\ ndl = 0
                 /\ page = <<>>
                 /\ drv = "wait" => err = "nil")
    /\ [][(hpc = "scrape" /\ ~rescrape /\ ReachedMark) =>
            /\ processed' = processed
            /\ fetches' = fetches
            /\ tRunning' <= tRunning
            /\ sc'.offset = sc.offset]_vars

\* a scrape without rescrape processed a post, met one at or below the
\* stored mark and returned nil
C8_Witness ==
    /\ hpc = "returned"
    /\ ~rescrape
    /\ ret.err = "nil"
    /\ processed # <<>>
    /\ ReachedMark

\* C9 as stated: SetHighestID is called only when the scrape returned
\* without error, and never when the driver failed, a download task failed
\* or the run was cancelled while the driver was still in its loop.
C9_NotStoredOnFailureOrCancel ==
    [][stores' # stores =>
         /\ ret.err = "nil"
         /\ err = "nil"
         /\ egErr = "nil"
         /\ cancelledAt \notin {"post", "dl", "blockedDl"}]_vars

\* C9 amended: SetHighestID is called only for a scrape that returned nil,
\* whose driver returned nil and none of whose tasks returned an error (a
\* cancellation that made no request of the scrape fail does not prevent
\* it); a scrape that returned an error is followed by no call; and the
\* store changes only by that call.
C9_StoredOnlyOnSuccess ==
    [][/\ stores' # stores =>
            /\ hpc = "returned"
            /\ ret.err = "nil"
            /\ err = "nil"
            /\ egErr = "nil"
            /\ tRunning = 0
            /\ stores' = Append(stores, <<blogs[bi], ret.id>>)
            /\ db' = [db EXCEPT ![blogs[bi]] = ret.id]
       /\ (hpc = "returned" /\ ret.err # "nil") => stores' = stores
       /\ stores' = stores => db' = db]_vars

\* the driver ended cleanly after processing a post, a download task
\* failed, and the run ended without a call of SetHighestID
C9_Witness ==
    /\ hpc = "failed"
    /\ err = "error"
    /\ egErr = "error"
    /\ processed # <<>>
    /\ stores = <<>>

\* C10: after a successful scrape the store holds the maximum of the initial
\* high-water mark (the stored mark, 0 if rescrape) and the ids of the posts
\* the loop looked at.
C10_StoredIsMax ==
    hpc = "done" =>
        LET initial == IF rescrape THEN 0 ELSE Max2(0, initialHighestID)
        IN  db[blogs[Len(blogs)]] = SetMax({initial} \cup seen)

-----------------------------------------------------------------------------
(***************************************************************************)
(* Claims on the stored mark, the fetch mode, login and cancellation       *)
(***************************************************************************)

\* C11: over successful scrape runs of a blog, with or without rescrape and
\* whatever the upstream returns, the mark the store holds for the blog
\* never decreases.
C11_MarkNeverDecreases ==
    [][\A b \in BlogNames : db'[b] >= db[b]]_vars

\* the fetch modes the scrape stays in: PUBLIC and AUTHENTICATED
FinalModes == {"UseAPI", "UseIndashAPI"}

\* C12: once the scrape's fetch mode is PUBLIC (UseAPI) or AUTHENTICATED
\* (UseIndashAPI) no step of the scrape changes it, and every page request
\* made in that mode goes to the endpoint of that mode.
C12_ModeIsFinal ==
    /\ []((hpc = "scrape" /\ sc.state \in FinalModes) => reqURL = postsURL(sc.state))
    /\ [][(hpc = "scrape" /\ hpc' = "scrape" /\ sc.state \in FinalModes) =>
            /\ sc'.state = sc.state
            /\ reqURL' = postsURL(sc.state)]_vars

\* a later page is being requested in AUTHENTICATED mode
C12_Witness ==
    /\ hpc = "scrape"
    /\ sc.state = "UseIndashAPI"
    /\ fetches >= 1
    /\ drv = "request"

\* C13: after the public endpoint's 404 in TRY_PUBLIC with credentials, a
\* request goes to the authenticated endpoint only when login has been
\* performed and the state is AUTHENTICATED.
C13_LoginBeforeIndash ==
    (hpc = "scrape" /\ drv = "request" /\ reqURL = "indash") =>
        /\ loginState = 1
        /\ sc.state = "UseIndashAPI"

\* C15: after a page that holds no post with id < lowestID the driver makes
\* no further page request.
C15_StopsOnStalePage ==
    [][(hpc = "scrape" /\ stale /\ drv # "request") => drv' # "request"]_vars

\* C18: once the root context is cancelled, a driver blocked in Acquire can
\* return from it without a Release.
C18_CancelUnblocks ==
    (hpc = "scrape" /\ rootCancelled /\ drv \in {"blockedFetch", "blockedDl"}
        /\ "drv" \notin closed)
        => ENABLED DrvWake

\* C14: whatever number of callers call LoginOnce, concurrently or one after
\* another, the login procedure runs at most once in the process.
C14_LoginAtMostOnce == Len(attempts) <= 1


\* C16: the tasks of one scrape share one error group.  The step in which
\* the group records a task's error raises the scrape's cancellation
\* signal; while the group holds an error the signal stays raised, so every
\* request of the scrape still in flight ends as cancelled and no further
\* page is delivered to the driver; and when Scrape returns with an error
\* in the group, it returns an error.
C16_FirstErrorCancels ==
    /\ []((hpc = "scrape" /\ egErr # "nil") => (ctxDone /\ requestErrors = {"canceled"}))
    /\ [][(\E e \in DOMAIN tRet : tRet'[e] < tRet[e]) => (ctxDone' /\ egErr' # "nil")]_vars
    /\ [][(hpc = "scrape" /\ egErr # "nil") =>
            /\ fetches' = fetches
            /\ page' \in {page, <<>>}]_vars
    /\ []((hpc = "returned" /\ egErr # "nil") => ret.err # "nil")

\* a scrape that delivered a page, had a download task fail, and returned
C16_Witness ==
    /\ hpc = "returned"
    /\ fetches >= 1
    /\ egErr = "error"
    /\ ret.err # "nil"

\* C17: blogs are scraped one at a time in configuration order.  The store
\* entries written so far are those of the first bi-1 configured blogs, in
\* order; an entry is written only for a scrape that returned without
\* error; between two scrapes no driver and no task of the earlier scrape
\* is left; and once a blog has failed nothing happens any more: no request,
\* no store entry, no further blog.
C17_OneBlogAtATime ==
    /\ [](/\ Len(stores) = bi - 1
          /\ \A i \in DOMAIN stores : stores[i][1] = blogs[i])
    /\ []((hpc \in {"next", "returned", "failed", "done"}) =>
            (drv = "idle" /\ tRunning = 0 /\ \A k \in DOMAIN tRet : tRet[k] = 0))
    /\ [][(stores' # stores \/ bi' # bi) =>
            /\ hpc = "returned" /\ ret.err = "nil"
            /\ bi' = bi + 1
            /\ stores' = Append(stores, <<blogs[bi], ret.id>>)
            /\ db'[blogs[bi]] = ret.id]_vars
    /\ [][hpc = "failed" => UNCHANGED <<hpc, bi, stores, db, drv, fetches, reqURL, tRunning>>]_vars

\* the first blog was scraped and stored, the second one failed after a
\* page had been delivered
C17_Witness ==
    /\ hpc = "failed"
    /\ bi = 2
    /\ Len(stores) = 1
    /\ fetches >= 1

\* C19: a download task issues at most two GETs, the first one for the
\* upgraded URL; a second one only for the source URL, only when it differs
\* from the upgraded URL and only after a 404 of the first; a task whose
\* last GET was answered 404 returns nil and has opened no file.
C19_OnlyNotFoundRetried ==
    \A t \in DTasks :
        /\ Len(dgets[t]) <= 2
        /\ Len(dgets[t]) >= 1 => dgets[t][1].url = fixupURL(drawurl[t])
        /\ Len(dgets[t]) = 2 =>
            /\ dgets[t][1].status = 404
            /\ fixupURL(drawurl[t]) # drawurl[t]
            /\ dgets[t][2].url = drawurl[t]
        /\ (dpc[t] = "done" /\ dgets[t] # <<>> /\ dgets[t][Len(dgets[t])].status = 404) =>
            (derr[t] = "nil" /\ dopened[t] = {})

-----------------------------------------------------------------------------
(* Claims about the semaphore's bookkeeping, the interlock, the page        *)
(* request's error handling and the driver's bookkeeping                    *)

\* the channels of the entries in the wait heap
Waiting == {waiters[i].ch : i \in 1..Len(waiters)}

\* C22: Release decrements allocated and then wakes waiters only while
\* allocated < capacity: a Release step closes the channels of exactly the
\* entries it pops, one increment of allocated per woken waiter, and stops
\* when the heap is empty or the semaphore is full again.  A blocked caller
\* is in the heap or has been woken, never both, and the heap holds one
\* entry per waiter.  So after every Acquire or Release step the heap is
\* empty or allocated = capacity.
C22_NoFreeSlotWhileWaiting ==
    /\ [](Len(waiters) = 0 \/ allocated = capacity)
    /\ [](/\ Cardinality(Waiting) = Len(waiters)
          /\ Waiting \cap closed = {}
          /\ \A t \in Threads : spc[t] = "blocked" <=> t \in Waiting \cup closed)
    /\ [][(\E t \in Threads : spc[t] = "holding" /\ spc'[t] = "idle") =>
            LET woken == closed' \ closed
            IN  /\ closed \subseteq closed'
                /\ woken = Waiting \ Waiting'
                /\ Waiting' \subseteq Waiting
                /\ allocated' = (allocated - 1) + Cardinality(woken)
                /\ Len(waiters') = 0 \/ allocated' = capacity]_vars

\* C22 witness: a Release has just woken a waiter (its channel is closed and
\* it has not returned yet), the semaphore is full again and another waiter
\* is still in the heap.
C22_Witness ==
    /\ allocated = capacity
    /\ Len(waiters) > 0
    /\ \E t \in closed : spc[t] = "blocked" /\ t \notin Waiting

\* C23: the file interlock is a non-blocking test-and-set on a set of paths.
\* A task's acquireFile(path) inserts the path and returns true (the task
\* goes on to open the file) when the path was absent, and returns false
\* leaving the set as it was (the attempt ends with nil) when it was
\* present; the call is always able to return, whoever holds the path;
\* releaseFile(path) removes exactly that path; nothing else changes the
\* set; and no two tasks are between a true acquire and the release of one
\* path, so the set is exactly the paths held.
C23_TestAndSet ==
    /\ [][\A t \in DTasks :
            (dpc[t] = "acquire" /\ dpc'[t] # "acquire") =>
                IF dpath[t] \notin lockedFiles
                THEN lockedFiles' = lockedFiles \cup {dpath[t]} /\ dpc'[t] = "open"
                ELSE lockedFiles' = lockedFiles /\ dpc'[t] = "done" /\ derr'[t] = "nil"]_vars
    /\ [](\A t \in DTasks : dpc[t] = "acquire" => ENABLED DlAcquire(t))
    /\ [][\A t \in DTasks :
            (dpc[t] = "release" /\ dpc'[t] # "release") =>
                lockedFiles' = lockedFiles \ {dpath[t]}]_vars
    /\ [][lockedFiles' # lockedFiles =>
            \E t \in DTasks : dpc[t] \in {"acquire", "release"} /\ dpc'[t] # dpc[t]]_vars
    /\ [](\A t1, t2 \in DTasks :
            (t1 # t2 /\ HoldsLock(t1) /\ HoldsLock(t2)) => dpath[t1] # dpath[t2])
    /\ [](lockedFiles = {dpath[t] : t \in {u \in DTasks : HoldsLock(u)}})

\* C23 witness: a task's acquireFile returned false (its GET was answered
\* 200, its path was not corrected, it opened nothing and returned nil)
\* while another task holds that path.
C23_Witness ==
    \E t1, t2 \in DTasks :
        /\ t1 # t2
        /\ HoldsLock(t1)
        /\ dpath[t2] = dpath[t1]
        /\ dpc[t2] = "done" /\ derr[t2] = "nil"
        /\ dgets[t2] # <<>> /\ dgets[t2][Len(dgets[t2])].status = 200
        /\ dpath[t2] = Base(dcur[t2])
        /\ dopened[t2] = {}

\* C24: a page request answered with a status other than 200 fails the
\* scrape (the driver returns an error, there is no retry and the state
\* stays), in every case other than a 404 received in TryUseAPI with a
\* username configured.
C24_NonOKFails ==
    [][\A st \in PageStatuses \ {200}, login \in BOOLEAN :
          (/\ DrvRequestStatus(st, login)
           /\ ~(sc.state = "TryUseAPI" /\ st = 404 /\ hasUser))
          => (drv' = "wait" /\ err' # "nil" /\ sc'.state = sc.state)]_vars

\* C27: the driver starts with highestID = initialHighestID = max(0, stored
\* mark) when rescrape is off and with 0 when rescrape is on; a successful
\* rescrape that saw no post stores 0.
C27_InitialMark ==
    /\ [](hpc = "scrape" =>
            initialHighestID = IF rescrape THEN 0 ELSE Max2(0, db[blogs[bi]]))
    /\ [][(stores' # stores /\ rescrape /\ seen = {}) =>
            stores'[Len(stores')][2] = 0]_vars

\* the last GET a task issued
LastGet(t) == dgets[t][Len(dgets[t])]

\* C30: a download GET is classified by its status: after 200 the attempt
\* goes on towards writing; after 403 the task returns nil and has written
\* no file; after 404 the attempt returns the not-found sentinel (the
\* fallback attempt starts, or the task returns nil); after any other
\* status the task returns an error.
C30_StatusClasses ==
    \A t \in DTasks :
        dgets[t] # <<>> =>
            /\ LastGet(t).status = 200 => dpc[t] \notin {"start", "lstat", "get"}
            /\ LastGet(t).status = 403 =>
                (dpc[t] = "done" /\ derr[t] = "nil" /\ dopened[t] = {})
            /\ LastGet(t).status = 404 =>
                \/ dattempt[t] = 2 /\ dpc[t] \in {"lstat", "get"} /\ Len(dgets[t]) = 1
                \/ dpc[t] = "done" /\ derr[t] = "nil"
            /\ LastGet(t).status \notin {0, 200, 403, 404} =>
                (dpc[t] = "done" /\ derr[t] = "error")

\* C26: offset starts at 0 and never decreases; the step that ends a page
\* with the loop going on to the next fetch adds the number of posts the
\* page held, skipped ones included; no other step of the scrape changes
\* it, in particular not a request that ends in a retry.
C26_OffsetRawLength ==
    /\ [](hpc = "scrape" => sc.offset >= 0)
    /\ [][(hpc = "next" /\ hpc' = "scrape") => sc'.offset = 0]_vars
    /\ [][(hpc = "scrape" /\ hpc' = "scrape") =>
            IF page # <<>> /\ page' = <<>> /\ drv' = "fetch"
            THEN sc'.offset = sc.offset + Len(page)
            ELSE sc'.offset = sc.offset]_vars

\* C26 witness: a page of two posts was consumed, handleReblogs dropped
\* both, and the offset is 2.
C26_Witness ==
    /\ hpc = "scrape"
    /\ drv = "fetch"
    /\ sc.offset = 2
    /\ fetches = 1
    /\ processed = <<>>

\* C28: Scrape surfaces the driver's error when the driver returned one and
\* the group's first error only when the driver returned nil; every error a
\* task returns is recorded by the group before Scrape returns, and the
\* group keeps the first; so Scrape returns nil only when the driver and
\* every task returned nil.
C28_DriverErrorFirst ==
    /\ [][(hpc = "scrape" /\ hpc' = "returned") =>
            /\ err # "nil" => ret'.err = err
            /\ err = "nil" => ret'.err = egErr
            /\ ret'.err = "nil" => (err = "nil" /\ egErr = "nil")
            /\ \A k \in DOMAIN tRet : tRet[k] = 0]_vars
    /\ [][(\E e \in {"error", "canceled"} : TaskReturn(e)) =>
            (egErr' # "nil" \/ \E k \in DOMAIN tRet : tRet'[k] > 0)]_vars
    /\ [][(hpc = "scrape" /\ egErr # "nil") => egErr' = egErr]_vars

\* C28 witness: a task failed first, the driver's next request was
\* cancelled, and Scrape surfaced the driver's error.
C28_Witness ==
    /\ hpc = "returned"
    /\ egErr = "error"
    /\ ret.err = "canceled"
    /\ ~rootCancelled

\* C29: Scrape returns only when every download task it spawned has
\* finished, also when the driver returned early with an error; outside a
\* running Scrape (when the mark is stored, when the next blog starts, when
\* the run has ended) no task is running and none is left unrecorded.
C29_WaitsForTasks ==
    /\ [](hpc # "scrape" => (tRunning = 0 /\ \A k \in DOMAIN tRet : tRet[k] = 0))
    /\ [][(hpc = "scrape" /\ hpc' # "scrape") =>
            (tRunning = 0 /\ \A k \in DOMAIN tRet : tRet[k] = 0)]_vars
    /\ [][(stores' # stores \/ bi' # bi) => (tRunning = 0 /\ tRunning' = 0)]_vars
    /\ [][tRunning' # tRunning => (hpc = "scrape" /\ hpc' = "scrape")]_vars

\* C29 witness: the driver has returned early with an error while a
\* download task of the second blog is still running; Scrape has not returned.
C29_Witness ==
    /\ hpc = "scrape"
    /\ bi = 2
    /\ drv = "wait"
    /\ err # "nil"
    /\ tRunning > 0

\* C25: throughout a scrape lowestID never increases, highestID never
\* decreases, and once before is set it never moves to a later time: it is
\* never later than a time it has held before, whatever ids and timestamps
\* the pages carry (0 stands for the zero time.Time, the value of an unset
\* before).
C25_Monotone ==
    /\ [][(hpc = "scrape" /\ hpc' = "scrape") =>
            /\ sc'.lowestID <= sc.lowestID
            /\ sc'.highestID >= sc.highestID]_vars
    /\ []((hpc = "scrape" /\ sc.before # 0 /\ earliest # 0) => sc.before <= earliest)

\* the second scrape of the blog has started (or has ended)
SecondRun == (bi = 2 /\ hpc # "next") \/ bi = 3

\* the second scrape hands no post to scrapePost and starts no download
NothingEnqueued == SecondRun => (processed = <<>> /\ ndl = 0 /\ tRunning = 0)

\* the mark the second scrape stores is the mark the first stored
SameMark == Len(stores) = 2 => stores[2][2] = stores[1][2]

\* C21: a blog scraped twice in a row against an unchanged upstream that
\* lists its posts newest first: the second scrape enqueues no download,
\* and the mark it stores equals the mark the first stored.
C21_RerunIsIdle == NothingEnqueued /\ SameMark

\* C21, amended: the same for a blog whose Rescrape setting is off; with
\* Rescrape on the second scrape stores the same mark as well (but walks
\* and enqueues everything again).
C21_RerunIsIdleUnlessRescrape ==
    /\ ~blogConfig.Rescrape => NothingEnqueued
    /\ SameMark

\* C21 witness: Rescrape is off, the first scrape stored the id of the
\* newest post, and the second looked at that post only, returned at it
\* and stored the same mark.
C21_Witness ==
    /\ ~blogConfig.Rescrape
    /\ upstream.feed # <<>>
    /\ Len(stores) = 2
    /\ stores[1][2] = upstream.feed[1]
    /\ seen = {upstream.feed[1]}
    /\ fetches = 1
-----------------------------------------------------------------------------
(* Claims about slots, partial files, the retry loop, the login latch and   *)
(* the configuration file                                                   *)

\* the driver has a slot: it is in its page request, or Release has handed
\* it the slot it is blocked for
DrvHolds ==
    \/ drv = "request"
    \/ drv \in {"blockedFetch", "blockedDl"} /\ "drv" \in closed

\* the slots in use: one per running download task, one for the driver
SlotsHeld == tRunning + (IF DrvHolds THEN 1 ELSE 0)

\* C31: every slot taken for a page fetch or a download is released exactly
\* once on every exit path and never without having been taken: allocated
\* is always the number of page fetches and download tasks under way, it
\* goes down only in a step that ends a page request or a task, and it is 0
\* whenever no Scrape is running, in particular when Scrape has returned.
C31_SlotsBalanced ==
    /\ [](allocated = SlotsHeld)
    /\ [](hpc # "scrape" => allocated = 0)
    /\ [][(hpc = "scrape" /\ hpc' = "scrape" /\ SlotsHeld' < SlotsHeld) =>
            /\ SlotsHeld' = SlotsHeld - 1
            /\ \/ drv = "request" /\ drv' # "request" /\ tRunning' = tRunning
               \/ tRunning' = tRunning - 1]_vars

\* C31 witness: Scrape has returned after a task failed, others were
\* cancelled by the termination signal, and no slot is taken.
C31_Witness ==
    /\ hpc = "returned"
    /\ egErr = "error"
    /\ rootCancelled
    /\ processed # <<>>
    /\ allocated = 0

\* C32: a task whose write fails after it created the file (while copying
\* the body, at Close or at Chtimes) returns its error with the file removed
\* and the path unlocked: the step in which such a task leaves the deferred
\* releaseFile ends with no file at its path and its path not locked.
C32_FailedLeavesNothing ==
    [][\A t \in DTasks :
          (/\ dpc[t] = "release" /\ dpc'[t] # "release"
           /\ derr[t] = "error"
           /\ dpath[t] \in dopened[t])
          => (dpath[t] \notin DOMAIN files' /\ dpath[t] \notin lockedFiles')]_vars

\* C33: a Chtimes that fails on a fully written file is not fatal: the task
\* goes on to return nil, and the file stays where it is.
C33_ChtimesNotFatal ==
    [][\A t \in DTasks :
          (/\ dpc[t] = "chtimes" /\ dpc'[t] = "release"
           /\ files'[dpath[t]].mtime # "chosen")
          => (derr'[t] = "nil" /\ dpath[t] \in DOMAIN files')]_vars

\* how far the fetch state has advanced
fetchRank(state) ==
    CASE state = "TryUseAPI" -> 0
      [] state = "TryUseIndashAPI" -> 1
      [] OTHER -> 2

\* C34: scrapeBlog sends at most three requests for one page: a "please
\* retry" result (the request ends and the next is started with no page and
\* no error) strictly advances the fetch state, the fetch state never goes
\* back, the third request of a page is made in UseIndashAPI, where every
\* answer ends the loop, and a scrape context calls LoginOnce at most once.
C34_RetryAdvances ==
    /\ [](hpc = "scrape" => (tries <= 3 /\ logins <= 1))
    /\ []((hpc = "scrape" /\ tries = 3) => sc.state = "UseIndashAPI")
    /\ [][(hpc = "scrape" /\ drv = "request" /\ drv' = "fetch") =>
            fetchRank(sc'.state) > fetchRank(sc.state)]_vars
    /\ [][(hpc = "scrape" /\ hpc' = "scrape") =>
            fetchRank(sc'.state) >= fetchRank(sc.state)]_vars
    /\ [][(hpc = "scrape" /\ drv = "request" /\ sc.state = "UseIndashAPI") =>
            drv' \in {"request", "post", "wait"}]_vars

\* C34 witness: the third request for the first page is under way, after
\* the 404 of the public endpoint and the login.
C34_Witness ==
    /\ hpc = "scrape"
    /\ drv = "request"
    /\ tries = 3
    /\ logins = 1
    /\ fetches = 0

\* the driver is blocked in Acquire
DrvBlocked == hpc = "scrape" /\ drv \in {"blockedFetch", "blockedDl"}

\* C35: a scrape does not deadlock on the semaphore, for capacity 1 as for
\* any other: a driver blocked in Acquire is eventually granted the slot,
\* given that every task's requests end and woken goroutines run.  No
\* wake-up is lost: while the driver is blocked and its channel is open, its
\* entry is in the wait heap and every slot is held by a running task,
\* whose Release will find the entry.
C35_DriverGranted ==
    /\ DrvBlocked ~> ~DrvBlocked
    /\ []((DrvBlocked /\ "drv" \notin closed) =>
            /\ Len(waiters) = 1 /\ waiters[1].ch = "drv"
            /\ allocated = capacity
            /\ tRunning = capacity)

\* C35 witness: with one slot, the driver is blocked in the Acquire for a
\* download while the slot is held by the task it spawned before.
C35_Witness ==
    /\ capacity = 1
    /\ drv = "blockedDl"
    /\ "drv" \notin closed
    /\ tRunning = 1

\* C36: within a scrape only the driver calls Acquire: the wait heap never
\* holds more than one entry and that entry is the driver's, a step that
\* takes a slot or enters the heap is a step of the driver at one of its two
\* Acquire calls, and the running download tasks plus a page fetch under
\* way never exceed the capacity.
C36_OnlyDriverWaits ==
    /\ [](Len(waiters) <= 1)
    /\ [](\A i \in 1..Len(waiters) : waiters[i].ch = "drv")
    /\ [](closed \subseteq {"drv"})
    /\ [](hpc = "scrape" =>
            tRunning + (IF drv = "request" THEN 1 ELSE 0) <= capacity)
    /\ [][(/\ hpc = "scrape" /\ hpc' = "scrape"
           /\ (allocated' > allocated \/ Len(waiters') > Len(waiters)))
          => (drv \in {"fetch", "dl"} /\ tRunning' >= tRunning)]_vars

\* C36 witness: two slots, both held by download tasks, and the driver is
\* the one waiter, blocked in the Acquire for the next page.
C36_Witness ==
    /\ capacity = 2
    /\ tRunning = 2
    /\ drv = "blockedFetch"
    /\ Len(waiters) = 1

\* the operation of the last successful attempt in history h ("none" if
\* there is none)
LastOk(h) ==
    LET S == {i \in 1..Len(h) : h[i].ok}
    IN  IF S = {} THEN "none"
        ELSE h[CHOOSE i \in S : \A j \in S : j <= i].op

\* C37: the login latch changes only when its guarded action succeeds.
\* loginState is 0 or 1; it changes only in the step of a successful
\* attempt, to 1 for a login and to 0 for a logout; a failed attempt leaves
\* it and returns the error to its caller; the login procedure runs only at
\* latch 0; the logout request is sent only at latch 1, when the last
\* successful attempt was a login; and a Logout called at latch 0 returns
\* nil at once and sends nothing.
C37_LatchFollowsSuccess ==
    /\ [](loginState \in {0, 1})
    /\ [](loginState = 1 <=> LastOk(attempts) = "login")
    /\ [][loginState' # loginState => Len(attempts') = Len(attempts) + 1]_vars
    /\ [][Len(attempts') # Len(attempts) =>
            LET a == attempts'[Len(attempts')]
            IN  /\ attempts' = Append(attempts, a)
                /\ loginState = (IF a.op = "login" THEN 0 ELSE 1)
                /\ a.op = "logout" => LastOk(attempts) = "login"
                /\ loginState' = (IF a.ok THEN 1 - loginState ELSE loginState)
                /\ lpc'[a.by] = "returned"
                /\ lres'[a.by] = (IF a.ok THEN "nil" ELSE "error")]_vars
    /\ [][\A c \in Callers :
            (LogoutCall(c) /\ loginState # 1) =>
                (/\ lpc'[c] = "returned" /\ lres'[c] = "nil"
                 /\ attempts' = attempts /\ loginState' = loginState)]_vars

\* C37 witness: a login failed, a login succeeded, a logout failed (the
\* latch stayed 1), a logout succeeded, and the latch is 0 again.
C37_Witness ==
    /\ Len(attempts) = 4
    /\ attempts[1].op = "login" /\ ~attempts[1].ok
    /\ attempts[2].op = "login" /\ attempts[2].ok
    /\ attempts[3].op = "logout" /\ ~attempts[3].ok
    /\ attempts[4].op = "logout" /\ attempts[4].ok
    /\ loginState = 0

\* C38: when a download task has failed with an error that is not a
\* cancellation (the group's first error) and no termination signal came,
\* the error Scrape returns is not context.Canceled.
C38_FailureNotCancel ==
    (hpc = "returned" /\ egErr = "error" /\ ~rootCancelled) => ret.err # "canceled"

\* what the run that saved had loaded, and what loading the file Save writes
\* gives: the complete previous and the complete new configuration
SavedConfigs == {mem.cfg, LoadConfigOrDefault([path |-> CompleteFile(mem.cfg),
                                               bak |-> NoCfgFile]).cfg}

\* C39: Config.Save is crash-safe with respect to LoadConfigOrDefault: when
\* Save was interrupted after any of its steps, the next LoadConfigOrDefault
\* returns the complete previous configuration or the complete new one,
\* never an error, a truncated configuration or the defaults.
C39_SaveCrashSafe ==
    cpc = "reloaded" =>
        /\ loadRes.kind = "ok"
        /\ loadRes.cfg \in SavedConfigs

\* C40: when neither the configuration file nor its backup exists,
\* LoadConfigOrDefault returns the default configuration (no blogs,
\* Concurrency = 24) and a nil error; it does not fail or crash.
C40_DefaultsWhenMissing ==
    [][(CfgLoad /\ ~cfgFiles.path.exists /\ ~cfgFiles.bak.exists) =>
          mem' = [kind |-> "ok",
                  cfg |-> [Concurrency |-> DefaultConcurrency, Blogs |-> <<>>]]]_vars

\* C39, without the kill while the data is written: every other interruption
\* of Save, and every Save that ran to its end, leaves a configuration the
\* next run loads whole
C39_SafeOutsideWrite ==
    (/\ cpc = "reloaded"
     /\ cfgFiles.path.exists =>
            (~cfgFiles.path.torn /\ Len(cfgFiles.path.lines) = Len(Encode(mem.cfg)))) =>
        /\ loadRes.kind = "ok"
        /\ loadRes.cfg \in SavedConfigs
=============================================================================
